---- MODULE Spec2Model ----
(***************************************************************************)
(* A model of the HTTP gateway of grpc_r-d (gateway/main.go, the           *)
(* middleware and the pooled gRPC client) together with the parts of the   *)
(* gRPC back end (server/main.go) its bridges talk to.                     *)
(*                                                                         *)
(* Each part is a state machine of its own; the specifications             *)
(* SpecServerStream, SpecClientStream, SpecBidirectional, SpecRateLimit,   *)
(* SpecLifecycle and SpecMiddleware run one of them while the others stay  *)
(* in their initial state.  SpecRateLimitTwo runs the rate limiter with    *)
(* two handlers, SpecShutdownTwice the life cycle with a repeated close,   *)
(* and the specifications whose name ends in Fair add the scheduling of    *)
(* the goroutines named in them.                                           *)
(***************************************************************************)
EXTENDS Integers, Sequences, FiniteSets, TLC

(***************************************************************************)
(* Bounds of the model and constants of the program.                       *)
(***************************************************************************)
\* the back end's server stream sends this many messages
ServerStreamCount == 5

\* longest batch of a client-stream request
MaxBatch == 3

\* most frames the peer of a bidirectional session sends
MaxPeerFrames == 3

\* the burst of the limiters the model runs.  The program's limiter is
\* newRateLimiter(100, 200); the model keeps its rate as the unit of time (one
\* tick is the 1/100 s in which one token is refilled) and runs the same
\* code with a smaller burst, so that an empty bucket is within reach.
RateLimitBurst == 3

\* the clock of the rate limiter advances this many ticks
MaxNow == 2

\* closeGRPCConnection is invoked at most this many times
MaxCloseCalls == 2

VARIABLES
    \* ---- server-stream bridge (handleServerStream) ----
    ssPc,       \* position of handleServerStream
    ssReq,      \* the inbound request: method and name query parameter
    ssName,     \* the name sent to the back end
    ssClient,   \* inbound connection: "none", "connected", "closed"
    ssReqCtx,   \* r.Context()
    ssCtx,      \* the RPC call context derived from it
    ssStatus,   \* status code of an error response written by the bridge
    ssRecvd,    \* messages stream.Recv() returned to the bridge, in order
    ssOut,      \* frames the bridge wrote to the response writer, in order
    ssWire,     \* frames that reached the client
    ssDown,     \* back end -> gateway: items of the RPC stream not yet received
    ssSrvPc,    \* position of the back end's SayHelloServerStream
    ssSrvI,     \* its loop counter
    ssSrvCtx,   \* its stream context
    ssSrvSent,  \* messages it sent, in order
    \* ---- client-stream bridge (handleClientStream) ----
    csPc,       \* position of handleClientStream
    csReq,      \* the inbound request: method and body
    csNames,    \* the decoded batch
    csIdx,      \* index of the next item of the batch
    csClient,   \* inbound connection
    csReqCtx,   \* r.Context()
    csCtx,      \* the RPC call context
    csSent,     \* names stream.Send() accepted, in order
    csFail,     \* index of the item whose Send failed, 0 when none did
    csResp,     \* responses written to the caller, in order
    csUp,       \* gateway -> back end: items of the RPC stream not yet received
    csDown,     \* back end -> gateway: the reply or the status of the call
    csSrvPc,    \* position of the back end's SayHelloClientStream
    csSrvNames, \* names it received, in order
    \* ---- bidirectional bridge (handleBidirectional) ----
    bdPc,       \* position of handleBidirectional (the session's send loop)
    bdReq,      \* the inbound request: can its connection be upgraded
    bdWs,       \* the WebSocket: "none", "open", "closed" (ws.Close())
    bdPeer,     \* the remote party: "none", "connected", "closed"
    bdPeerSent, \* frames the peer sent, in order
    bdIn,       \* frames the peer sent that ReadJSON has not returned yet
    bdRead,     \* frames ReadJSON decoded, in order
    bdBad,      \* ReadJSON failed to decode a frame
    bdMsg,      \* the name of the frame being handled
    bdFwd,      \* names stream.Send() accepted, in order
    bdWrites,   \* frames passed to ws.WriteJSON, in order
    bdOut,      \* frames that reached the peer, in order
    bdWriteErr, \* the WebSocket's write error, kept once a write failed
    bdReqCtx,   \* r.Context()
    bdCtx,      \* the session's context
    bdCloseSent,\* stream.CloseSend() was called
    bdUp,       \* gateway -> back end: items of the RPC stream
    bdDown,     \* back end -> gateway: items of the RPC stream
    bdRecvPc,   \* position of the receive goroutine
    bdRecvMsg,  \* the frame the receive goroutine is about to write
    bdDone,     \* number of values in the done channel (capacity 1)
    bdWait,     \* how the wait for the goroutine ended
    bdSrvPc,    \* position of the back end's SayHelloBidirectional
    bdLog,      \* the log entries of the handler: <<kind, k>>, k the number
                \* of the inbound frame the entry is about, or 0
    \* ---- rate limiter (rateLimiter, rateLimitMiddleware) ----
    rlNow,      \* the clock, in ticks of the time in which one token is refilled
    rlLimiters, \* the rate.Limiter objects created so far, in order of creation
    rlMap,      \* globalRateLimiter.limiters: identity -> index in rlLimiters, or 0
    rlH,        \* the request each handler goroutine is serving
    rlAdm,      \* requests admitted in the current tick (counted in the first
                \* tick and in a tick that follows a denial)
    rlDenied,   \* a request was denied in the current tick
    rlDeniedBefore, \* a request was denied in the tick before
    \* ---- life cycle of the gateway process (main, grpc_client) ----
    lcPc,       \* position of main
    lcExit,     \* how the process ended: "none", "normal", "fatal"
    lcDial,     \* result of grpc.Dial: "none", "ok", "err"
    lcConn,     \* grpcConn: "nil", or the state of the connection it holds
    lcDials,    \* connections created so far
    lcCalls,    \* invocations of closeGRPCConnection
    lcCloses,   \* invocations of grpcConn.Close()
    lcCloseErr, \* a Close() returned an error (the connection was closed already)
    lcListener, \* srv.ListenAndServe: "none", "starting", "listening",
                \* "closed", "failed"
    lcSignal,   \* a termination signal was received
    lcH,        \* the connections of the HTTP server and the handlers on them
    \* ---- one request on its way through the middleware of its route ----
    mwPc,       \* "idle", "run" (in the chain) or "done" (answered)
    mwReq,      \* the request: route, method, Origin, Accept-Encoding, body
    mwIdx,      \* the stage of the chain that runs next
    mwStages,   \* the stages that ran for the request
    mwCaps,     \* what the response writer handed on can do: "flush", "hijack"
    mwHdr,      \* response headers set so far
    mwStatus,   \* status code written, 0 while none was written
    mwBody,     \* response body written
    mwRpc,      \* RPC calls or streams the handler opened
    mwLw,       \* the responseLogger of requestLogger: whether it wraps the
                \* writer, its statusCode, what the writer under it can do
    mwFlush     \* the Flush calls of the handler, and how many of them
                \* reached the writer of the server

ssVars == <<ssPc, ssReq, ssName, ssClient, ssReqCtx, ssCtx, ssStatus, ssRecvd,
            ssOut, ssWire, ssDown, ssSrvPc, ssSrvI, ssSrvCtx, ssSrvSent>>

csVars == <<csPc, csReq, csNames, csIdx, csClient, csReqCtx, csCtx, csSent,
            csFail, csResp, csUp, csDown, csSrvPc, csSrvNames>>

bdVars == <<bdPc, bdReq, bdWs, bdPeer, bdPeerSent, bdIn, bdRead, bdBad, bdMsg,
            bdFwd, bdWrites, bdOut, bdWriteErr, bdReqCtx, bdCtx, bdCloseSent,
            bdUp, bdDown, bdRecvPc, bdRecvMsg, bdDone, bdWait, bdSrvPc, bdLog>>

rlVars == <<rlNow, rlLimiters, rlMap, rlH, rlAdm, rlDenied, rlDeniedBefore>>

lcVars == <<lcPc, lcExit, lcDial, lcConn, lcDials, lcCalls, lcCloses,
            lcCloseErr, lcListener, lcSignal, lcH>>

mwVars == <<mwPc, mwReq, mwIdx, mwStages, mwCaps, mwHdr, mwStatus, mwBody,
            mwRpc, mwLw, mwFlush>>

vars == <<ssVars, csVars, bdVars, rlVars, lcVars, mwVars>>

\* what the actions of one bridge leave alone
ssOthers == <<csVars, bdVars, rlVars, lcVars, mwVars>>
csOthers == <<ssVars, bdVars, rlVars, lcVars, mwVars>>
bdOthers == <<ssVars, csVars, rlVars, lcVars, mwVars>>
rlOthers == <<ssVars, csVars, bdVars, lcVars, mwVars>>
lcOthers == <<ssVars, csVars, bdVars, rlVars, mwVars>>
mwOthers == <<ssVars, csVars, bdVars, rlVars, lcVars>>

(***************************************************************************)
(* Contexts.  A context is "none" (not created), "active", "canceled" or   *)
(* "deadline" (its timeout elapsed).                                       *)
(***************************************************************************)
CtxDone(c) == c \in {"canceled", "deadline"}

\* context.WithTimeout / context.WithCancel: a child of a finished parent is
\* finished from the start
WithParent(parent) == IF CtxDone(parent) THEN "canceled" ELSE "active"

\* cancel(): the first cause of the end of a context is kept
Cancel(c) == IF c = "active" THEN "canceled" ELSE c

(***************************************************************************)
(* Server-stream bridge: GET /api/server-stream over Server-Sent Events.   *)
(***************************************************************************)
Methods == {"GET", "POST"}
Names == {"", "Bob"}

\* name := r.URL.Query().Get("name"); if name == "" { name = "Guest" }
DefaultName(n) == IF n = "" THEN "Guest" ELSE n

\* fmt.Sprintf("Hello %s - Message %d of 5", in.Name, i)
HelloMessage(name, i) ==
    "Hello " \o name \o " - Message " \o ToString(i) \o " of 5"

\* data := map[string]string{"message": msg.Message}; json.Marshal(data)
JsonMessage(m) == [message |-> m]

\* fmt.Fprintf(w, "data: %s\n\n", jsonData)
DataFrame(m) == [event |-> "message", data |-> JsonMessage(m)]

\* fmt.Fprintf(w, "event: done\ndata: {\"message\": \"Stream complete\"}\n\n")
DoneFrame == [event |-> "done", data |-> [message |-> "Stream complete"]]

\* items of an RPC stream on their way to the receiver
MsgItem(m) == [kind |-> "msg", message |-> m]
EofItem == [kind |-> "eof", message |-> ""]
ErrItem(e) == [kind |-> "err", message |-> e]

\* a faulty writer: the new frame is put in front of what was written
WriteFramePrepended(out, f) == <<f>> \o out

\* a write to the response writer appends a frame to what was written
WriteFrame(out, f) == Append(out, f)

\* the frame reaches the client only while the connection is open
Deliver(wire, f, client) == IF client = "connected" THEN Append(wire, f) ELSE wire

ssInit ==
    /\ ssPc = "idle"
    /\ ssReq = [method |-> "GET", name |-> ""]
    /\ ssName = ""
    /\ ssClient = "none"
    /\ ssReqCtx = "none"
    /\ ssCtx = "none"
    /\ ssStatus = 0
    /\ ssRecvd = <<>>
    /\ ssOut = <<>>
    /\ ssWire = <<>>
    /\ ssDown = <<>>
    /\ ssSrvPc = "idle"
    /\ ssSrvI = 1
    /\ ssSrvCtx = "none"
    /\ ssSrvSent = <<>>

\* the HTTP server accepts a request and starts its handler
ServerStreamArrive(m, n) ==
    /\ ssPc = "idle"
    /\ ssReq' = [method |-> m, name |-> n]
    /\ ssClient' = "connected"
    /\ ssReqCtx' = "active"
    /\ ssPc' = "enter"
    /\ UNCHANGED <<ssName, ssCtx, ssStatus, ssRecvd, ssOut, ssWire, ssDown,
                   ssSrvPc, ssSrvI, ssSrvCtx, ssSrvSent>>
    /\ UNCHANGED ssOthers

\* a faulty bridge: the call context is derived from context.Background()
ServerStreamParentBackground == "background"

\* the parent of the RPC call context: r.Context()
ServerStreamParent == "request"

\* the state of the parent context
ParentCtx(parent, reqCtx) == IF parent = "request" THEN reqCtx ELSE "active"

\* method check, name, headers, context.WithTimeout(r.Context(), 30s)
ServerStreamEnter ==
    /\ ssPc = "enter"
    /\ IF ssReq.method # "GET"
         THEN /\ ssStatus' = 405
              /\ ssPc' = "exit"
              /\ UNCHANGED <<ssName, ssCtx>>
         ELSE /\ ssName' = DefaultName(ssReq.name)
              /\ ssCtx' = WithParent(ParentCtx(ServerStreamParent, ssReqCtx))
              /\ ssPc' = "open"
              /\ UNCHANGED ssStatus
    /\ UNCHANGED <<ssReq, ssClient, ssReqCtx, ssRecvd, ssOut, ssWire, ssDown,
                   ssSrvPc, ssSrvI, ssSrvCtx, ssSrvSent>>
    /\ UNCHANGED ssOthers

\* grpcClient.SayHelloServerStream(ctx, ...): the stream opens, or the call
\* fails (finished context, back end unavailable) and the bridge answers 500
ServerStreamOpen ==
    /\ ssPc = "open"
    /\ \/ /\ ssCtx = "active"
          /\ ssPc' = "recv"
          /\ ssSrvPc' = "check"
          /\ ssSrvCtx' = "active"
          /\ UNCHANGED ssStatus
       \/ /\ ssStatus' = 500
          /\ ssPc' = "exit"
          /\ UNCHANGED <<ssSrvPc, ssSrvCtx>>
    /\ UNCHANGED <<ssReq, ssName, ssClient, ssReqCtx, ssCtx, ssRecvd, ssOut,
                   ssWire, ssDown, ssSrvI, ssSrvSent>>
    /\ UNCHANGED ssOthers

\* stream.Recv(): the next item of the stream, or the error of a finished
\* context (when both are ready either is returned)
ServerStreamRecv ==
    /\ ssPc = "recv"
    /\ \/ /\ ssDown # <<>>
          /\ ssDown' = Tail(ssDown)
          /\ LET it == Head(ssDown) IN
               CASE it.kind = "msg" ->
                        /\ ssRecvd' = Append(ssRecvd, it.message)
                        /\ ssPc' = "write"
                 [] it.kind = "eof" ->
                        /\ ssPc' = "writeDone"
                        /\ UNCHANGED ssRecvd
                 [] OTHER ->
                        /\ ssPc' = "exit"
                        /\ UNCHANGED ssRecvd
       \/ /\ CtxDone(ssCtx)
          /\ ssPc' = "exit"
          /\ UNCHANGED <<ssDown, ssRecvd>>
    /\ UNCHANGED <<ssReq, ssName, ssClient, ssReqCtx, ssCtx, ssStatus, ssOut,
                   ssWire, ssSrvPc, ssSrvI, ssSrvCtx, ssSrvSent>>
    /\ UNCHANGED ssOthers

\* a faulty bridge: the message is kept for later and the next one is
\* requested before it is written
ServerStreamWriteDeferred ==
    /\ ssPc = "write"
    /\ ssPc' = "recv"
    /\ UNCHANGED <<ssReq, ssName, ssClient, ssReqCtx, ssCtx, ssStatus, ssRecvd,
                   ssOut, ssWire, ssDown, ssSrvPc, ssSrvI, ssSrvCtx, ssSrvSent>>
    /\ UNCHANGED ssOthers

\* one data frame for the message just received, then Flush
ServerStreamWriteData ==
    /\ ssPc = "write"
    /\ LET f == DataFrame(ssRecvd[Len(ssRecvd)]) IN
         /\ ssOut' = WriteFrame(ssOut, f)
         /\ ssWire' = Deliver(ssWire, f, ssClient)
    /\ ssPc' = "recv"
    /\ UNCHANGED <<ssReq, ssName, ssClient, ssReqCtx, ssCtx, ssStatus, ssRecvd,
                   ssDown, ssSrvPc, ssSrvI, ssSrvCtx, ssSrvSent>>
    /\ UNCHANGED ssOthers

\* io.EOF: the done marker, then Flush and break
ServerStreamWriteDone ==
    /\ ssPc = "writeDone"
    /\ ssOut' = WriteFrame(ssOut, DoneFrame)
    /\ ssWire' = Deliver(ssWire, DoneFrame, ssClient)
    /\ ssPc' = "exit"
    /\ UNCHANGED <<ssReq, ssName, ssClient, ssReqCtx, ssCtx, ssStatus, ssRecvd,
                   ssDown, ssSrvPc, ssSrvI, ssSrvCtx, ssSrvSent>>
    /\ UNCHANGED ssOthers

\* return: the deferred cancel() runs, and the HTTP server ends the request's
\* context once the handler has returned
ServerStreamReturn ==
    /\ ssPc = "exit"
    /\ ssCtx' = Cancel(ssCtx)
    /\ ssReqCtx' = Cancel(ssReqCtx)
    /\ ssPc' = "returned"
    /\ UNCHANGED <<ssReq, ssName, ssClient, ssStatus, ssRecvd, ssOut, ssWire,
                   ssDown, ssSrvPc, ssSrvI, ssSrvCtx, ssSrvSent>>
    /\ UNCHANGED ssOthers

\* the client goes away: the HTTP server sees the connection close and
\* cancels the request's context, and with it every context derived from it
ServerStreamDisconnect ==
    /\ ssClient = "connected"
    /\ ssPc # "returned"
    /\ ssClient' = "closed"
    /\ ssReqCtx' = Cancel(ssReqCtx)
    /\ ssCtx' = IF ServerStreamParent = "request" THEN Cancel(ssCtx) ELSE ssCtx
    /\ UNCHANGED <<ssPc, ssReq, ssName, ssStatus, ssRecvd, ssOut, ssWire,
                   ssDown, ssSrvPc, ssSrvI, ssSrvCtx, ssSrvSent>>
    /\ UNCHANGED ssOthers

\* the 30 s timeout of the call context elapses
ServerStreamDeadline ==
    /\ ssCtx = "active"
    /\ ssCtx' = "deadline"
    /\ UNCHANGED <<ssPc, ssReq, ssName, ssClient, ssReqCtx, ssStatus, ssRecvd,
                   ssOut, ssWire, ssDown, ssSrvPc, ssSrvI, ssSrvCtx, ssSrvSent>>
    /\ UNCHANGED ssOthers

\* the end of the call context reaches the back end's stream context
ServerStreamCancelReachesBackend ==
    /\ CtxDone(ssCtx)
    /\ ssSrvCtx = "active"
    /\ ssSrvCtx' = "canceled"
    /\ UNCHANGED <<ssPc, ssReq, ssName, ssClient, ssReqCtx, ssCtx, ssStatus,
                   ssRecvd, ssOut, ssWire, ssDown, ssSrvPc, ssSrvI, ssSrvSent>>
    /\ UNCHANGED ssOthers

\* a faulty back end: the loop does not look at its context
BackendStreamCheckIgnoringCtx ==
    /\ ssSrvPc = "check"
    /\ IF ssSrvI > ServerStreamCount
         THEN /\ ssDown' = Append(ssDown, EofItem)
              /\ ssSrvPc' = "returned"
         ELSE /\ ssSrvPc' = "send"
              /\ UNCHANGED ssDown
    /\ UNCHANGED <<ssPc, ssReq, ssName, ssClient, ssReqCtx, ssCtx, ssStatus,
                   ssRecvd, ssOut, ssWire, ssSrvI, ssSrvCtx, ssSrvSent>>
    /\ UNCHANGED ssOthers

\* back end: loop condition, then the select on ctx.Done()
BackendStreamCheck ==
    /\ ssSrvPc = "check"
    /\ IF ssSrvI > ServerStreamCount
         THEN /\ ssDown' = Append(ssDown, EofItem)
              /\ ssSrvPc' = "returned"
         ELSE IF ssSrvCtx = "canceled"
                THEN /\ ssDown' = Append(ssDown, ErrItem("context canceled"))
                     /\ ssSrvPc' = "returned"
                ELSE /\ ssSrvPc' = "send"
                     /\ UNCHANGED ssDown
    /\ UNCHANGED <<ssPc, ssReq, ssName, ssClient, ssReqCtx, ssCtx, ssStatus,
                   ssRecvd, ssOut, ssWire, ssSrvI, ssSrvCtx, ssSrvSent>>
    /\ UNCHANGED ssOthers

\* back end: stream.Send(response); it fails on a cancelled stream
BackendStreamSend ==
    /\ ssSrvPc = "send"
    /\ IF ssSrvCtx = "canceled"
         THEN /\ ssDown' = Append(ssDown, ErrItem("send failed"))
              /\ ssSrvPc' = "returned"
              /\ UNCHANGED ssSrvSent
         ELSE /\ ssDown' = Append(ssDown, MsgItem(HelloMessage(ssName, ssSrvI)))
              /\ ssSrvSent' = Append(ssSrvSent, HelloMessage(ssName, ssSrvI))
              /\ ssSrvPc' = "sleep"
    /\ UNCHANGED <<ssPc, ssReq, ssName, ssClient, ssReqCtx, ssCtx, ssStatus,
                   ssRecvd, ssOut, ssWire, ssSrvI, ssSrvCtx>>
    /\ UNCHANGED ssOthers

\* back end: time.Sleep(1s), i++
BackendStreamSleep ==
    /\ ssSrvPc = "sleep"
    /\ ssSrvI' = ssSrvI + 1
    /\ ssSrvPc' = "check"
    /\ UNCHANGED <<ssPc, ssReq, ssName, ssClient, ssReqCtx, ssCtx, ssStatus,
                   ssRecvd, ssOut, ssWire, ssDown, ssSrvCtx, ssSrvSent>>
    /\ UNCHANGED ssOthers

\* the steps of the back end's SayHelloServerStream
BackendStreamStep ==
    \/ BackendStreamCheck
    \/ BackendStreamSend
    \/ BackendStreamSleep

ServerStreamStep ==
    \/ \E m \in Methods, n \in Names : ServerStreamArrive(m, n)
    \/ ServerStreamEnter
    \/ ServerStreamOpen
    \/ ServerStreamRecv
    \/ ServerStreamWriteData
    \/ ServerStreamWriteDone
    \/ ServerStreamReturn
    \/ ServerStreamDisconnect
    \/ ServerStreamDeadline
    \/ ServerStreamCancelReachesBackend
    \/ BackendStreamCheck
    \/ BackendStreamSend
    \/ BackendStreamSleep

(***************************************************************************)
(* Properties of the server-stream bridge.                                 *)
(***************************************************************************)
IsPrefix(a, b) == Len(a) <= Len(b) /\ \A k \in 1..Len(a) : a[k] = b[k]

\* the data frames among the frames written
DataFrames(out) == SelectSeq(out, LAMBDA f : f.event = "message")

\* C1: the data frames written to the SSE transport are, in content and
\* order, the messages received from the back end's stream (the frame of the
\* message just received being the only one that may still be missing, and
\* none once the bridge has left its loop); what was received is what the back
\* end sent, in its order; the done marker is the last frame written and
\* follows the frames of all the messages the back end sent.
C1_StreamOrder ==
    LET d == DataFrames(ssOut) IN
      /\ Len(d) <= Len(ssRecvd)
      /\ \A k \in 1..Len(d) : d[k] = DataFrame(ssRecvd[k])
      /\ (ssPc # "write") => Len(d) = Len(ssRecvd)
      /\ IsPrefix(ssRecvd, ssSrvSent)
      /\ IsPrefix(ssWire, ssOut)
      /\ \A k \in 1..Len(ssOut) :
            ssOut[k].event = "done" =>
                /\ k = Len(ssOut)
                /\ ssPc \in {"exit", "returned"}
                /\ Len(d) = Len(ssSrvSent)
                /\ Len(d) = ServerStreamCount

\* a complete stream for Bob: five data frames and the done marker
C1_Witness ==
    /\ ssPc = "returned"
    /\ Len(ssOut) = ServerStreamCount + 1
    /\ ssOut[1] = DataFrame("Hello Bob - Message 1 of 5")
    /\ ssOut[ServerStreamCount + 1] = DoneFrame

\* C2: once the inbound connection of a server-stream session has been
\* closed, the context of the session's RPC call is finished (in the same
\* step, and from its creation on when the connection closed before), and it
\* is finished whenever handleServerStream has returned.
C2_CancelOnDisconnect ==
    /\ (ssClient = "closed" /\ ssCtx # "none") => CtxDone(ssCtx)
    /\ (ssPc = "returned" /\ ssCtx # "none") => CtxDone(ssCtx)

\* the client went away in the middle of the stream
C2_Witness ==
    /\ ssClient = "closed"
    /\ ssPc = "recv"
    /\ Len(ssRecvd) \in 1..(ServerStreamCount - 1)
    /\ ssCtx = "canceled"
    /\ ssSrvPc = "sleep"

\* C25: a server-stream bridge whose RPC stream was opened and whose client is
\* still connected leaves its loop with a last frame that is the done marker
\* or an error notice, and the done marker is written only after the whole
\* stream of the back end was received.
C25_ErrorNoticeOnStreamError ==
    /\ (ssSrvPc # "idle" /\ ssPc \in {"exit", "returned"}
          /\ ssClient = "connected") =>
          /\ ssOut # <<>>
          /\ ssOut[Len(ssOut)].event \in {"done", "error"}
    /\ \A k \in 1..Len(ssOut) :
          ssOut[k].event = "done" => Len(ssRecvd) = ServerStreamCount

\* the messages received from the RPC stream whose frame is not written yet
PendingFrames == Len(ssRecvd) - Len(DataFrames(ssOut))

\* C26: the server-stream bridge holds at most one message that is received
\* and not yet written and flushed, and none while it asks the RPC stream
\* for the next one: a message is taken from the stream only when the frame
\* of every message taken before is written, the last frame being that of
\* the last message.
C26_OneInFlight ==
    /\ [](PendingFrames \in {0, 1})
    /\ []((ssPc = "recv") => PendingFrames = 0)
    /\ [][(ssRecvd' # ssRecvd) =>
            /\ Len(ssRecvd') = Len(ssRecvd) + 1
            /\ PendingFrames = 0
            /\ (ssRecvd # <<>>) =>
                  ssOut[Len(ssOut)] = DataFrame(ssRecvd[Len(ssRecvd)])]_vars

\* the third message is received, the frames of the two before it are
\* written
C26_Witness ==
    /\ ssPc = "write"
    /\ Len(ssRecvd) = 3
    /\ Len(DataFrames(ssOut)) = 2
    /\ PendingFrames = 1

\* C36: the back end's server stream goes to Send only from the check of
\* its context, with the context not cancelled; with a cancelled context
\* the check returns, and nothing is sent except by a Send that was entered
\* before; a stream whose context is cancelled returns.
C36_BackendCancellationAware ==
    /\ [][(ssSrvPc' = "send" /\ ssSrvPc # "send") =>
            (ssSrvPc = "check" /\ ssSrvCtx # "canceled")]_vars
    /\ [][(ssSrvCtx = "canceled" /\ ssSrvPc = "check" /\ ssSrvPc' # "check") =>
            ssSrvPc' = "returned"]_vars
    /\ [][(ssSrvCtx = "canceled" /\ ssSrvPc # "send") =>
            ssSrvSent' = ssSrvSent]_vars
    /\ [][Len(ssSrvSent') <= Len(ssSrvSent) + 1]_vars
    /\ ((ssSrvCtx = "canceled" /\ ssSrvPc # "idle") ~> (ssSrvPc = "returned"))

\* the context was cancelled after the second message and the back end
\* returned at its next check
C36_Witness ==
    /\ ssSrvCtx = "canceled"
    /\ ssSrvPc = "returned"
    /\ ssSrvI = 3
    /\ Len(ssSrvSent) = 2


(***************************************************************************)
(* Client-stream bridge: POST /api/client-stream.                          *)
(***************************************************************************)
BatchNames == {"Alice", "Bob"}

\* the sequences over S of length at most n
SeqsUpTo(S, n) == UNION {[1..k -> S] : k \in 0..n}

\* request bodies: a JSON array of strings, or something that does not decode
Bodies == {[valid |-> TRUE, names |-> q] : q \in SeqsUpTo(BatchNames, MaxBatch)}
            \cup {[valid |-> FALSE, names |-> <<>>]}

\* an error response of http.Error, a JSON response of the bridge
ErrorResponse(code) == [status |-> code, kind |-> "error", message |-> ""]
JsonResponse(m) == [status |-> 200, kind |-> "json", message |-> m]

RECURSIVE JoinNames(_)
\* strings.Join(names, ", ")
JoinNames(q) ==
    IF q = <<>> THEN ""
    ELSE IF Len(q) = 1 THEN q[1]
    ELSE q[1] \o ", " \o JoinNames(Tail(q))

\* fmt.Sprintf("Hello to all: %s! (Total: %d people, %v)", allNames, len(names), totalTime)
AggregateMessage(q) ==
    "Hello to all: " \o JoinNames(q) \o "! (Total: " \o ToString(Len(q))
        \o " people, <elapsed>)"

csInit ==
    /\ csPc = "idle"
    /\ csReq = [method |-> "POST", body |-> [valid |-> TRUE, names |-> <<>>]]
    /\ csNames = <<>>
    /\ csIdx = 1
    /\ csClient = "none"
    /\ csReqCtx = "none"
    /\ csCtx = "none"
    /\ csSent = <<>>
    /\ csFail = 0
    /\ csResp = <<>>
    /\ csUp = <<>>
    /\ csDown = <<>>
    /\ csSrvPc = "idle"
    /\ csSrvNames = <<>>

\* the HTTP server accepts a request and starts its handler
ClientStreamArrive(m, b) ==
    /\ csPc = "idle"
    /\ csReq' = [method |-> m, body |-> b]
    /\ csClient' = "connected"
    /\ csReqCtx' = "active"
    /\ csPc' = "enter"
    /\ UNCHANGED <<csNames, csIdx, csCtx, csSent, csFail, csResp, csUp, csDown,
                   csSrvPc, csSrvNames>>
    /\ UNCHANGED csOthers

\* method check, json Decode of the body, context.WithTimeout(r.Context(), 30s)
ClientStreamEnter ==
    /\ csPc = "enter"
    /\ IF csReq.method # "POST"
         THEN /\ csResp' = Append(csResp, ErrorResponse(405))
              /\ csPc' = "exit"
              /\ UNCHANGED <<csNames, csCtx>>
         ELSE IF ~csReq.body.valid
           THEN /\ csResp' = Append(csResp, ErrorResponse(400))
                /\ csPc' = "exit"
                /\ UNCHANGED <<csNames, csCtx>>
           ELSE /\ csNames' = csReq.body.names
                /\ csCtx' = WithParent(csReqCtx)
                /\ csPc' = "open"
                /\ UNCHANGED csResp
    /\ UNCHANGED <<csReq, csIdx, csClient, csReqCtx, csSent, csFail, csUp,
                   csDown, csSrvPc, csSrvNames>>
    /\ UNCHANGED csOthers

\* grpcClient.SayHelloClientStream(ctx): the stream opens or the call fails
ClientStreamOpen ==
    /\ csPc = "open"
    /\ \/ /\ csCtx = "active"
          /\ csPc' = "send"
          /\ csSrvPc' = "recv"
          /\ UNCHANGED csResp
       \/ /\ csResp' = Append(csResp, ErrorResponse(500))
          /\ csPc' = "exit"
          /\ UNCHANGED csSrvPc
    /\ UNCHANGED <<csReq, csNames, csIdx, csClient, csReqCtx, csCtx, csSent,
                   csFail, csUp, csDown, csSrvNames>>
    /\ UNCHANGED csOthers

\* a faulty loop: the error of Send is dropped and the loop goes on
ClientStreamSendIgnoringError ==
    /\ csPc = "send"
    /\ csIdx <= Len(csNames)
    /\ \/ /\ csCtx = "active"
          /\ csFail = 0
          /\ csSent' = Append(csSent, csNames[csIdx])
          /\ csUp' = Append(csUp, MsgItem(csNames[csIdx]))
          /\ UNCHANGED csFail
       \/ /\ csFail' = IF csFail = 0 THEN csIdx ELSE csFail
          /\ UNCHANGED <<csSent, csUp>>
    /\ csIdx' = csIdx + 1
    /\ UNCHANGED <<csPc, csReq, csNames, csClient, csReqCtx, csCtx, csResp,
                   csDown, csSrvPc, csSrvNames>>
    /\ UNCHANGED csOthers

\* one round of the loop over names: stream.Send(name); an error ends the
\* handler with a 500
ClientStreamSend ==
    /\ csPc = "send"
    /\ csIdx <= Len(csNames)
    /\ \/ /\ csCtx = "active"
          /\ csSent' = Append(csSent, csNames[csIdx])
          /\ csUp' = Append(csUp, MsgItem(csNames[csIdx]))
          /\ csIdx' = csIdx + 1
          /\ UNCHANGED <<csPc, csFail, csResp>>
       \/ /\ csFail' = csIdx
          /\ csResp' = Append(csResp, ErrorResponse(500))
          /\ csPc' = "exit"
          /\ UNCHANGED <<csSent, csUp, csIdx>>
    /\ UNCHANGED <<csReq, csNames, csClient, csReqCtx, csCtx, csDown, csSrvPc,
                   csSrvNames>>
    /\ UNCHANGED csOthers

\* a faulty bridge: the stream is closed with the last item still unsent
ClientStreamCloseSendEarly ==
    /\ csPc = "send"
    /\ csIdx >= Len(csNames)
    /\ csUp' = Append(csUp, EofItem)
    /\ csPc' = "await"
    /\ UNCHANGED <<csReq, csNames, csIdx, csClient, csReqCtx, csCtx, csSent,
                   csFail, csResp, csDown, csSrvPc, csSrvNames>>
    /\ UNCHANGED csOthers

\* stream.CloseAndRecv(), first half: CloseSend after the last item
ClientStreamCloseSend ==
    /\ csPc = "send"
    /\ csIdx > Len(csNames)
    /\ csUp' = Append(csUp, EofItem)
    /\ csPc' = "await"
    /\ UNCHANGED <<csReq, csNames, csIdx, csClient, csReqCtx, csCtx, csSent,
                   csFail, csResp, csDown, csSrvPc, csSrvNames>>
    /\ UNCHANGED csOthers

\* stream.CloseAndRecv(), second half: the reply is written as JSON, an error
\* (of the call, or of its finished context) as a 500
ClientStreamAwait ==
    /\ csPc = "await"
    /\ \/ /\ csDown # <<>>
          /\ csDown' = Tail(csDown)
          /\ csResp' = Append(csResp,
                 IF Head(csDown).kind = "msg"
                   THEN JsonResponse(Head(csDown).message)
                   ELSE ErrorResponse(500))
       \/ /\ CtxDone(csCtx)
          /\ csResp' = Append(csResp, ErrorResponse(500))
          /\ UNCHANGED csDown
    /\ csPc' = "exit"
    /\ UNCHANGED <<csReq, csNames, csIdx, csClient, csReqCtx, csCtx, csSent,
                   csFail, csUp, csSrvPc, csSrvNames>>
    /\ UNCHANGED csOthers

\* return: the deferred cancel() runs
ClientStreamReturn ==
    /\ csPc = "exit"
    /\ csCtx' = Cancel(csCtx)
    /\ csReqCtx' = Cancel(csReqCtx)
    /\ csPc' = "returned"
    /\ UNCHANGED <<csReq, csNames, csIdx, csClient, csSent, csFail, csResp,
                   csUp, csDown, csSrvPc, csSrvNames>>
    /\ UNCHANGED csOthers

\* the client goes away while the handler runs
ClientStreamDisconnect ==
    /\ csClient = "connected"
    /\ csPc # "returned"
    /\ csClient' = "closed"
    /\ csReqCtx' = Cancel(csReqCtx)
    /\ csCtx' = Cancel(csCtx)
    /\ UNCHANGED <<csPc, csReq, csNames, csIdx, csSent, csFail, csResp, csUp,
                   csDown, csSrvPc, csSrvNames>>
    /\ UNCHANGED csOthers

\* the 30 s timeout of the call context elapses
ClientStreamDeadline ==
    /\ csCtx = "active"
    /\ csCtx' = "deadline"
    /\ UNCHANGED <<csPc, csReq, csNames, csIdx, csClient, csReqCtx, csSent,
                   csFail, csResp, csUp, csDown, csSrvPc, csSrvNames>>
    /\ UNCHANGED csOthers

\* back end: stream.Recv() in a loop; on io.EOF the aggregate reply; the
\* call ends with an error once its context is finished
BackendClientStreamRecv ==
    /\ csSrvPc = "recv"
    /\ \/ /\ csUp # <<>>
          /\ csUp' = Tail(csUp)
          /\ IF Head(csUp).kind = "msg"
               THEN /\ csSrvNames' = Append(csSrvNames, Head(csUp).message)
                    /\ UNCHANGED <<csDown, csSrvPc>>
               ELSE /\ csDown' = Append(csDown, MsgItem(AggregateMessage(csSrvNames)))
                    /\ csSrvPc' = "returned"
                    /\ UNCHANGED csSrvNames
       \/ /\ CtxDone(csCtx)
          /\ csDown' = Append(csDown, ErrItem("context canceled"))
          /\ csSrvPc' = "returned"
          /\ UNCHANGED <<csUp, csSrvNames>>
    /\ UNCHANGED <<csPc, csReq, csNames, csIdx, csClient, csReqCtx, csCtx,
                   csSent, csFail, csResp>>
    /\ UNCHANGED csOthers

ClientStreamStep ==
    \/ \E m \in Methods, b \in Bodies : ClientStreamArrive(m, b)
    \/ ClientStreamEnter
    \/ ClientStreamOpen
    \/ ClientStreamSend
    \/ ClientStreamCloseSend
    \/ ClientStreamAwait
    \/ ClientStreamReturn
    \/ ClientStreamDisconnect
    \/ ClientStreamDeadline
    \/ BackendClientStreamRecv

(***************************************************************************)
(* Properties of the client-stream bridge.                                 *)
(***************************************************************************)
\* the aggregate responses among the responses written
Aggregates(resp) == SelectSeq(resp, LAMBDA r : r.kind = "json")

\* C3: a client-stream session whose sends and close-and-receive all
\* succeeded has written exactly one response, the aggregate of its whole
\* batch; a session in which a send failed writes no aggregate, has written
\* exactly one error response and has sent no item from the failed one on.
C3_ClientStreamOutcome ==
    /\ Len(Aggregates(csResp)) <= 1
    /\ Len(csResp) <= 1
    /\ IsPrefix(csSent, csNames)
    /\ (csFail # 0) =>
          /\ Aggregates(csResp) = <<>>
          /\ csResp = <<ErrorResponse(500)>>
          /\ Len(csSent) = csFail - 1
          /\ csPc \in {"exit", "returned"}
    /\ (csPc = "returned" /\ Aggregates(csResp) # <<>>) =>
          /\ csFail = 0
          /\ csSent = csNames
          /\ csResp = <<JsonResponse(AggregateMessage(csNames))>>
    /\ (csPc = "returned" /\ csCtx # "none") => Len(csResp) = 1

\* the send of the second of three items failed
C3_Witness ==
    /\ csPc = "returned"
    /\ Len(csNames) = MaxBatch
    /\ csFail = 2
    /\ csSent = <<csNames[1]>>

\* the batch Alice, Bob, Alice came back as one aggregate
C3_WitnessAggregate ==
    /\ csPc = "returned"
    /\ csNames = <<"Alice", "Bob", "Alice">>
    /\ csResp = <<JsonResponse(
          "Hello to all: Alice, Bob, Alice! (Total: 3 people, <elapsed>)")>>

\* the names of the items of the RPC stream the back end has not read yet
UpNames ==
    LET items == SelectSeq(csUp, LAMBDA it : it.kind = "msg")
    IN  [k \in 1..Len(items) |-> items[k].message]

\* C24: what the back end read from the one RPC stream, followed by what it
\* has not read yet, is what the bridge sent, a prefix of the batch in its
\* order; the end of the input is signalled once, after the whole batch was
\* sent, and is the last item of the stream; from then on nothing is sent,
\* and the bridge leaves its wait with one response written; an aggregate of
\* the back end is that of the whole batch.
C24_CloseAfterLastItem ==
    /\ [](/\ IsPrefix(csSent, csNames)
          /\ csSrvNames \o UpNames = csSent
          /\ \A k \in 1..Len(csUp) :
                csUp[k].kind = "eof" =>
                   (k = Len(csUp) /\ csSent = csNames /\ csPc # "send")
          /\ (csPc = "await") => (csSent = csNames /\ csResp = <<>>)
          /\ \A k \in 1..Len(csDown) :
                csDown[k].kind = "msg" =>
                   csDown[k].message = AggregateMessage(csNames))
    /\ [][(csPc \in {"await", "exit", "returned"}) =>
            (csSent' = csSent /\ Len(csUp') <= Len(csUp))]_vars
    /\ [][(csPc = "await" /\ csPc' # "await") =>
            (csPc' = "exit" /\ Len(csResp') = 1)]_vars

\* the batch Bob, Alice was sent, the stream closed after it and the back
\* end has read both items and the end of the input
C24_Witness ==
    /\ csPc = "await"
    /\ csNames = <<"Bob", "Alice">>
    /\ csSent = csNames
    /\ csSrvNames = csNames
    /\ csSrvPc = "returned"
    /\ csUp = <<>>

(***************************************************************************)
(* Bidirectional bridge: WebSocket /api/bidirectional.                     *)
(*                                                                         *)
(* The session is modelled for a request whose connection the handler's    *)
(* response writer may or may not be able to upgrade (bdReq.upgradable).   *)
(***************************************************************************)
PeerNames == {"", "a", "b"}

\* frames of the peer: a JSON object with (or without) a name, or a frame
\* that does not decode into map[string]string
PeerFrames == {[valid |-> TRUE, name |-> n] : n \in PeerNames}
                \cup {[valid |-> FALSE, name |-> ""]}

\* frames of the gateway: map[string]string{"message": ...} or {"error": ...}
MessageFrame(m) == [key |-> "message", value |-> m]
ErrorFrame(e) == [key |-> "error", value |-> e]

\* ws.WriteJSON(map[string]string{"message": "Connected to server!"})
AckFrame == MessageFrame("Connected to server!")

\* ws.WriteJSON(map[string]string{"message": "Stream ended"})
EndFrame == MessageFrame("Stream ended")

\* fmt.Sprintf("Echo: Hello %s! (received at %s)", req.Name, time.Now()...)
EchoMessage(n) == "Echo: Hello " \o n \o "! (received at <time>)"

\* if name == "" { continue }
SkipName(n) == n = ""

\* a write reaches the peer while the connection stands and no earlier
\* write failed
CanWrite == bdWs = "open" /\ bdPeer = "connected" /\ ~bdWriteErr

\* ws.WriteJSON(f)
WsWrite(f) ==
    /\ bdWrites' = Append(bdWrites, f)
    /\ IF CanWrite
         THEN bdOut' = Append(bdOut, f) /\ UNCHANGED bdWriteErr
         ELSE bdWriteErr' = TRUE /\ UNCHANGED bdOut

NoWsWrite == UNCHANGED <<bdWrites, bdOut, bdWriteErr>>

\* a faulty bridge: the received name is put in front of what was sent
ForwardPrepended(q, n) == <<n>> \o q

\* stream.Send(&pb.HelloRequest{Name: name}) adds to what was sent
Forward(q, n) == Append(q, n)

\* log.Printf: the entries are added to the log
Log(entries) == bdLog' = bdLog \cup entries

\* the positions of the handler after its send loop
AfterLoop == {"sendFailed", "cancel", "closeSend", "wait", "exit", "returned"}

bdInit ==
    /\ bdPc = "idle"
    /\ bdReq = [upgradable |-> FALSE]
    /\ bdWs = "none"
    /\ bdPeer = "none"
    /\ bdPeerSent = <<>>
    /\ bdIn = <<>>
    /\ bdRead = <<>>
    /\ bdBad = FALSE
    /\ bdMsg = ""
    /\ bdFwd = <<>>
    /\ bdWrites = <<>>
    /\ bdOut = <<>>
    /\ bdWriteErr = FALSE
    /\ bdReqCtx = "none"
    /\ bdCtx = "none"
    /\ bdCloseSent = FALSE
    /\ bdUp = <<>>
    /\ bdDown = <<>>
    /\ bdRecvPc = "none"
    /\ bdRecvMsg = AckFrame
    /\ bdDone = 0
    /\ bdWait = "none"
    /\ bdSrvPc = "idle"
    /\ bdLog = {}

\* the HTTP server hands a request to the handler
BidiArrive(u) ==
    /\ bdPc = "idle"
    /\ bdReq' = [upgradable |-> u]
    /\ bdReqCtx' = "active"
    /\ bdPc' = "upgrade"
    /\ UNCHANGED <<bdWs, bdPeer, bdPeerSent, bdIn, bdRead, bdBad, bdMsg, bdFwd,
                   bdWrites, bdOut, bdWriteErr, bdCtx, bdCloseSent, bdUp,
                   bdDown, bdRecvPc, bdRecvMsg, bdDone, bdWait, bdSrvPc>>
    /\ UNCHANGED bdLog
    /\ UNCHANGED bdOthers

\* upgrader.Upgrade(w, r, nil); on an error the handler returns
BidiUpgrade ==
    /\ bdPc = "upgrade"
    /\ IF bdReq.upgradable
         THEN /\ bdWs' = "open"
              /\ bdPeer' = "connected"
              /\ bdPc' = "ack"
              /\ UNCHANGED bdReqCtx
         ELSE /\ bdPc' = "returned"
              /\ bdReqCtx' = Cancel(bdReqCtx)
              /\ UNCHANGED <<bdWs, bdPeer>>
    /\ UNCHANGED <<bdReq, bdPeerSent, bdIn, bdRead, bdBad, bdMsg, bdFwd,
                   bdWrites, bdOut, bdWriteErr, bdCtx, bdCloseSent, bdUp,
                   bdDown, bdRecvPc, bdRecvMsg, bdDone, bdWait, bdSrvPc>>
    /\ Log({IF bdReq.upgradable THEN <<"established", 0>>
                                    ELSE <<"upgrade error", 0>>})
    /\ UNCHANGED bdOthers

\* a faulty bridge: no connection message is written
BidiAckSkipped ==
    /\ bdPc = "ack"
    /\ bdPc' = "open"
    /\ NoWsWrite
    /\ UNCHANGED <<bdReq, bdWs, bdPeer, bdPeerSent, bdIn, bdRead, bdBad, bdMsg,
                   bdFwd, bdReqCtx, bdCtx, bdCloseSent, bdUp, bdDown, bdRecvPc,
                   bdRecvMsg, bdDone, bdWait, bdSrvPc>>
    /\ UNCHANGED bdLog
    /\ UNCHANGED bdOthers

\* ws.WriteJSON(map[string]string{"message": "Connected to server!"})
BidiAck ==
    /\ bdPc = "ack"
    /\ WsWrite(AckFrame)
    /\ bdPc' = "open"
    /\ UNCHANGED <<bdReq, bdWs, bdPeer, bdPeerSent, bdIn, bdRead, bdBad, bdMsg,
                   bdFwd, bdReqCtx, bdCtx, bdCloseSent, bdUp, bdDown, bdRecvPc,
                   bdRecvMsg, bdDone, bdWait, bdSrvPc>>
    /\ UNCHANGED bdLog
    /\ UNCHANGED bdOthers

\* a faulty handler: after the failed call it writes the error and goes on
\* to its goroutine and its send loop
BidiOpenFailureIgnored ==
    /\ bdPc = "open"
    /\ bdCtx' = WithParent(bdReqCtx)
    /\ bdPc' = "spawn"
    /\ \/ /\ bdReqCtx = "active"
          /\ bdSrvPc' = "run"
          /\ NoWsWrite
          /\ Log({<<"stream created", 0>>})
       \/ /\ WsWrite(ErrorFrame("Failed to connect to gRPC server"))
          /\ Log({<<"stream error", 0>>})
          /\ UNCHANGED bdSrvPc
    /\ UNCHANGED <<bdReq, bdWs, bdPeer, bdPeerSent, bdIn, bdRead, bdBad, bdMsg,
                   bdFwd, bdReqCtx, bdCloseSent, bdUp, bdDown, bdRecvPc,
                   bdRecvMsg, bdDone, bdWait>>
    /\ UNCHANGED bdOthers

\* context.WithCancel(r.Context()) and grpcClient.SayHelloBidirectional(ctx):
\* the stream opens, or the call fails, the error is written to the peer and
\* the handler returns
BidiOpen ==
    /\ bdPc = "open"
    /\ bdCtx' = WithParent(bdReqCtx)
    /\ \/ /\ bdReqCtx = "active"
          /\ bdSrvPc' = "run"
          /\ bdPc' = "spawn"
          /\ NoWsWrite
       \/ /\ WsWrite(ErrorFrame("Failed to connect to gRPC server"))
          /\ bdPc' = "exit"
          /\ UNCHANGED bdSrvPc
    /\ UNCHANGED <<bdReq, bdWs, bdPeer, bdPeerSent, bdIn, bdRead, bdBad, bdMsg,
                   bdFwd, bdReqCtx, bdCloseSent, bdUp, bdDown, bdRecvPc,
                   bdRecvMsg, bdDone, bdWait>>
    /\ Log({IF bdPc' = "spawn" THEN <<"stream created", 0>>
                                  ELSE <<"stream error", 0>>})
    /\ UNCHANGED bdOthers

\* done := make(chan bool, 1); go func() {...}()
BidiSpawn ==
    /\ bdPc = "spawn"
    /\ bdRecvPc' = "recv"
    /\ bdPc' = "read"
    /\ NoWsWrite
    /\ UNCHANGED <<bdReq, bdWs, bdPeer, bdPeerSent, bdIn, bdRead, bdBad, bdMsg,
                   bdFwd, bdReqCtx, bdCtx, bdCloseSent, bdUp, bdDown,
                   bdRecvMsg, bdDone, bdWait, bdSrvPc>>
    /\ UNCHANGED bdLog
    /\ UNCHANGED bdOthers

\* ws.ReadJSON(&msg), name := msg["name"]: the next frame of the peer; an
\* undecodable frame or a closed connection ends the loop, an empty name
\* goes back to ReadJSON
BidiRead ==
    /\ bdPc = "read"
    /\ \/ /\ bdIn # <<>>
          /\ bdIn' = Tail(bdIn)
          /\ IF Head(bdIn).valid
               THEN /\ bdRead' = Append(bdRead, Head(bdIn))
                    /\ bdMsg' = Head(bdIn).name
                    /\ bdPc' = IF SkipName(Head(bdIn).name) THEN "read" ELSE "send"
                    /\ UNCHANGED bdBad
               ELSE /\ bdBad' = TRUE
                    /\ bdPc' = "cancel"
                    /\ UNCHANGED <<bdRead, bdMsg>>
       \/ /\ bdIn = <<>>
          /\ bdPeer = "closed"
          /\ bdPc' = "cancel"
          /\ UNCHANGED <<bdIn, bdRead, bdBad, bdMsg>>
    /\ NoWsWrite
    /\ UNCHANGED <<bdReq, bdWs, bdPeer, bdPeerSent, bdFwd, bdReqCtx, bdCtx,
                   bdCloseSent, bdUp, bdDown, bdRecvPc, bdRecvMsg, bdDone,
                   bdWait, bdSrvPc>>
    /\ Log(IF bdPc' = "cancel" THEN {<<"read error", 0>>}
           ELSE IF bdPc' = "send" THEN {<<"received", Len(bdRead')>>}
           ELSE {})
    /\ UNCHANGED bdOthers

\* a faulty loop: after a failed Send the loop goes on with the next frame
BidiSendContinuing ==
    /\ bdPc = "send"
    /\ \/ /\ bdCtx = "active"
          /\ bdFwd' = Forward(bdFwd, bdMsg)
          /\ bdUp' = Append(bdUp, MsgItem(bdMsg))
          /\ NoWsWrite
       \/ /\ WsWrite(ErrorFrame("Failed to send message"))
          /\ UNCHANGED <<bdFwd, bdUp>>
    /\ bdPc' = "read"
    /\ UNCHANGED <<bdReq, bdWs, bdPeer, bdPeerSent, bdIn, bdRead, bdBad, bdMsg,
                   bdReqCtx, bdCtx, bdCloseSent, bdDown, bdRecvPc, bdRecvMsg,
                   bdDone, bdWait, bdSrvPc>>
    /\ Log(IF bdFwd' = bdFwd THEN {<<"send error", Len(bdRead)>>} ELSE {})
    /\ UNCHANGED bdOthers

\* stream.Send(&pb.HelloRequest{Name: name}); an error is logged and the
\* loop is about to tell the peer and end
BidiSend ==
    /\ bdPc = "send"
    /\ \/ /\ bdCtx = "active"
          /\ bdFwd' = Forward(bdFwd, bdMsg)
          /\ bdUp' = Append(bdUp, MsgItem(bdMsg))
          /\ bdPc' = "read"
       \/ /\ bdPc' = "sendFailed"
          /\ UNCHANGED <<bdFwd, bdUp>>
    /\ NoWsWrite
    /\ UNCHANGED <<bdReq, bdWs, bdPeer, bdPeerSent, bdIn, bdRead, bdBad, bdMsg,
                   bdReqCtx, bdCtx, bdCloseSent, bdDown, bdRecvPc, bdRecvMsg,
                   bdDone, bdWait, bdSrvPc>>
    /\ Log(IF bdFwd' = bdFwd THEN {<<"send error", Len(bdRead)>>} ELSE {})
    /\ UNCHANGED bdOthers

\* ws.WriteJSON(map[string]string{"error": "Failed to send message"}) of the
\* main loop, then break: the write is made by the handler's own goroutine
\* while the receive goroutine may be in a WriteJSON of its own
BidiSendNotify ==
    /\ bdPc = "sendFailed"
    /\ WsWrite(ErrorFrame("Failed to send message"))
    /\ bdPc' = "cancel"
    /\ UNCHANGED <<bdReq, bdWs, bdPeer, bdPeerSent, bdIn, bdRead, bdBad, bdMsg,
                   bdFwd, bdUp, bdReqCtx, bdCtx, bdCloseSent, bdDown, bdRecvPc,
                   bdRecvMsg, bdDone, bdWait, bdSrvPc>>
    /\ UNCHANGED bdLog
    /\ UNCHANGED bdOthers

\* cancel()
BidiCancel ==
    /\ bdPc = "cancel"
    /\ bdCtx' = Cancel(bdCtx)
    /\ bdPc' = "closeSend"
    /\ NoWsWrite
    /\ UNCHANGED <<bdReq, bdWs, bdPeer, bdPeerSent, bdIn, bdRead, bdBad, bdMsg,
                   bdFwd, bdReqCtx, bdCloseSent, bdUp, bdDown, bdRecvPc,
                   bdRecvMsg, bdDone, bdWait, bdSrvPc>>
    /\ UNCHANGED bdLog
    /\ UNCHANGED bdOthers

\* stream.CloseSend()
BidiCloseSend ==
    /\ bdPc = "closeSend"
    /\ bdCloseSent' = TRUE
    /\ bdUp' = Append(bdUp, EofItem)
    /\ bdPc' = "wait"
    /\ NoWsWrite
    /\ UNCHANGED <<bdReq, bdWs, bdPeer, bdPeerSent, bdIn, bdRead, bdBad, bdMsg,
                   bdFwd, bdReqCtx, bdCtx, bdDown, bdRecvPc, bdRecvMsg, bdDone,
                   bdWait, bdSrvPc>>
    /\ UNCHANGED bdLog
    /\ UNCHANGED bdOthers

\* a faulty wait: it takes the goroutine for finished without its signal
BidiWaitDoneUnsignalled ==
    /\ bdPc = "wait"
    /\ bdDone' = 0
    /\ bdWait' = "clean"
    /\ bdPc' = "exit"
    /\ NoWsWrite
    /\ UNCHANGED <<bdReq, bdWs, bdPeer, bdPeerSent, bdIn, bdRead, bdBad, bdMsg,
                   bdFwd, bdReqCtx, bdCtx, bdCloseSent, bdUp, bdDown, bdRecvPc,
                   bdRecvMsg, bdSrvPc>>
    /\ Log({<<"closed cleanly", 0>>})
    /\ UNCHANGED bdOthers

\* select: case <-done
BidiWaitDone ==
    /\ bdPc = "wait"
    /\ bdDone > 0
    /\ bdDone' = bdDone - 1
    /\ bdWait' = "clean"
    /\ bdPc' = "exit"
    /\ NoWsWrite
    /\ UNCHANGED <<bdReq, bdWs, bdPeer, bdPeerSent, bdIn, bdRead, bdBad, bdMsg,
                   bdFwd, bdReqCtx, bdCtx, bdCloseSent, bdUp, bdDown, bdRecvPc,
                   bdRecvMsg, bdSrvPc>>
    /\ Log({<<"closed cleanly", 0>>})
    /\ UNCHANGED bdOthers

\* a faulty wait: no timer beside the done channel
WaitTimerNone == FALSE

\* select: case <-time.After(2 * time.Second) stands beside case <-done
WaitTimer == TRUE

\* select: case <-time.After(2 * time.Second)
BidiWaitTimeout ==
    /\ bdPc = "wait"
    /\ WaitTimer
    /\ bdWait' = "timeout"
    /\ bdPc' = "exit"
    /\ NoWsWrite
    /\ UNCHANGED <<bdReq, bdWs, bdPeer, bdPeerSent, bdIn, bdRead, bdBad, bdMsg,
                   bdFwd, bdReqCtx, bdCtx, bdCloseSent, bdUp, bdDown, bdRecvPc,
                   bdRecvMsg, bdDone, bdSrvPc>>
    /\ Log({<<"wait timeout", 0>>})
    /\ UNCHANGED bdOthers

\* return: the deferred cancel() and ws.Close() run
BidiReturn ==
    /\ bdPc = "exit"
    /\ bdCtx' = Cancel(bdCtx)
    /\ bdReqCtx' = Cancel(bdReqCtx)
    /\ bdWs' = "closed"
    /\ bdPc' = "returned"
    /\ NoWsWrite
    /\ UNCHANGED <<bdReq, bdPeer, bdPeerSent, bdIn, bdRead, bdBad, bdMsg, bdFwd,
                   bdCloseSent, bdUp, bdDown, bdRecvPc, bdRecvMsg, bdDone,
                   bdWait, bdSrvPc>>
    /\ UNCHANGED bdLog
    /\ UNCHANGED bdOthers

\* receive goroutine: stream.Recv()
BidiRecv ==
    /\ bdRecvPc = "recv"
    /\ \/ /\ bdDown # <<>>
          /\ bdDown' = Tail(bdDown)
          /\ bdRecvMsg' =
                CASE Head(bdDown).kind = "msg" -> MessageFrame(Head(bdDown).message)
                  [] Head(bdDown).kind = "eof" -> EndFrame
                  [] OTHER -> ErrorFrame("gRPC receive error")
          /\ bdRecvPc' = IF Head(bdDown).kind = "msg" THEN "write" ELSE "notify"
       \/ /\ CtxDone(bdCtx)
          /\ bdRecvMsg' = ErrorFrame("gRPC receive error")
          /\ bdRecvPc' = "notify"
          /\ UNCHANGED bdDown
    /\ NoWsWrite
    /\ UNCHANGED <<bdPc, bdReq, bdWs, bdPeer, bdPeerSent, bdIn, bdRead, bdBad,
                   bdMsg, bdFwd, bdReqCtx, bdCtx, bdCloseSent, bdUp, bdDone,
                   bdWait, bdSrvPc>>
    /\ Log(IF bdRecvPc' = "write" THEN {}
           ELSE IF bdRecvMsg' = EndFrame THEN {<<"stream eof", 0>>}
           ELSE {<<"receive error", 0>>})
    /\ UNCHANGED bdOthers

\* receive goroutine: ws.WriteJSON(data); a write error ends the goroutine
BidiRecvWrite ==
    /\ bdRecvPc = "write"
    /\ WsWrite(bdRecvMsg)
    /\ bdRecvPc' = IF CanWrite THEN "recv" ELSE "post"
    /\ UNCHANGED <<bdPc, bdReq, bdWs, bdPeer, bdPeerSent, bdIn, bdRead, bdBad,
                   bdMsg, bdFwd, bdReqCtx, bdCtx, bdCloseSent, bdUp, bdDown,
                   bdRecvMsg, bdDone, bdWait, bdSrvPc>>
    /\ Log(IF CanWrite THEN {} ELSE {<<"write error", 0>>})
    /\ UNCHANGED bdOthers

\* a faulty goroutine: after its notice it goes on receiving
BidiRecvNotifyContinuing ==
    /\ bdRecvPc = "notify"
    /\ WsWrite(bdRecvMsg)
    /\ bdRecvPc' = "recv"
    /\ UNCHANGED <<bdPc, bdReq, bdWs, bdPeer, bdPeerSent, bdIn, bdRead, bdBad,
                   bdMsg, bdFwd, bdReqCtx, bdCtx, bdCloseSent, bdUp, bdDown,
                   bdRecvMsg, bdDone, bdWait, bdSrvPc>>
    /\ UNCHANGED bdLog
    /\ UNCHANGED bdOthers

\* receive goroutine: the "Stream ended" or the error notice, then return
BidiRecvNotify ==
    /\ bdRecvPc = "notify"
    /\ WsWrite(bdRecvMsg)
    /\ bdRecvPc' = "post"
    /\ UNCHANGED <<bdPc, bdReq, bdWs, bdPeer, bdPeerSent, bdIn, bdRead, bdBad,
                   bdMsg, bdFwd, bdReqCtx, bdCtx, bdCloseSent, bdUp, bdDown,
                   bdRecvMsg, bdDone, bdWait, bdSrvPc>>
    /\ UNCHANGED bdLog
    /\ UNCHANGED bdOthers

\* done := make(chan bool, 1): the room of the done channel
DoneCapacity == 1

\* a faulty signal: the done channel has no room, so the post is a
\* rendezvous with the handler's select and is taken in the same step
BidiRecvPostUnbuffered ==
    /\ bdRecvPc = "post"
    /\ bdPc = "wait"
    /\ bdRecvPc' = "exited"
    /\ bdWait' = "clean"
    /\ bdPc' = "exit"
    /\ NoWsWrite
    /\ UNCHANGED <<bdReq, bdWs, bdPeer, bdPeerSent, bdIn, bdRead, bdBad, bdMsg,
                   bdFwd, bdReqCtx, bdCtx, bdCloseSent, bdUp, bdDown,
                   bdRecvMsg, bdDone, bdSrvPc>>
    /\ Log({<<"closed cleanly", 0>>})
    /\ UNCHANGED bdOthers

\* receive goroutine: defer func() { done <- true }()
BidiRecvPost ==
    /\ bdRecvPc = "post"
    /\ bdDone < DoneCapacity
    /\ bdDone' = bdDone + 1
    /\ bdRecvPc' = "exited"
    /\ NoWsWrite
    /\ UNCHANGED <<bdPc, bdReq, bdWs, bdPeer, bdPeerSent, bdIn, bdRead, bdBad,
                   bdMsg, bdFwd, bdReqCtx, bdCtx, bdCloseSent, bdUp, bdDown,
                   bdRecvMsg, bdWait, bdSrvPc>>
    /\ UNCHANGED bdLog
    /\ UNCHANGED bdOthers

\* back end: a request is echoed; the end of the client's input ends the call,
\* a finished context ends it with an error
BackendBidiStep ==
    /\ bdSrvPc = "run"
    /\ \/ /\ bdUp # <<>>
          /\ bdUp' = Tail(bdUp)
          /\ IF Head(bdUp).kind = "msg"
               THEN /\ bdDown' = Append(bdDown, MsgItem(EchoMessage(Head(bdUp).message)))
                    /\ UNCHANGED bdSrvPc
               ELSE /\ bdDown' = Append(bdDown, EofItem)
                    /\ bdSrvPc' = "returned"
       \/ /\ CtxDone(bdCtx)
          /\ bdDown' = Append(bdDown, ErrItem("context canceled"))
          /\ bdSrvPc' = "returned"
          /\ UNCHANGED bdUp
    /\ NoWsWrite
    /\ UNCHANGED <<bdPc, bdReq, bdWs, bdPeer, bdPeerSent, bdIn, bdRead, bdBad,
                   bdMsg, bdFwd, bdReqCtx, bdCtx, bdCloseSent, bdRecvPc,
                   bdRecvMsg, bdDone, bdWait>>
    /\ UNCHANGED bdLog
    /\ UNCHANGED bdOthers

\* back end: the call fails by itself (the server goes away, the connection
\* to it breaks): the stream ends with an error
BackendBidiFail ==
    /\ bdSrvPc = "run"
    /\ bdDown' = Append(bdDown, ErrItem("unavailable"))
    /\ bdSrvPc' = "returned"
    /\ NoWsWrite
    /\ UNCHANGED <<bdPc, bdReq, bdWs, bdPeer, bdPeerSent, bdIn, bdRead, bdBad,
                   bdMsg, bdFwd, bdReqCtx, bdCtx, bdCloseSent, bdUp, bdRecvPc,
                   bdRecvMsg, bdDone, bdWait, bdLog>>
    /\ UNCHANGED bdOthers

\* the peer sends a frame
PeerSend(f) ==
    /\ bdPeer = "connected"
    /\ bdWs = "open"
    /\ Len(bdPeerSent) < MaxPeerFrames
    /\ bdPeerSent' = Append(bdPeerSent, f)
    /\ bdIn' = Append(bdIn, f)
    /\ NoWsWrite
    /\ UNCHANGED <<bdPc, bdReq, bdWs, bdPeer, bdRead, bdBad, bdMsg, bdFwd,
                   bdReqCtx, bdCtx, bdCloseSent, bdUp, bdDown, bdRecvPc,
                   bdRecvMsg, bdDone, bdWait, bdSrvPc>>
    /\ UNCHANGED bdLog
    /\ UNCHANGED bdOthers

\* the peer closes the connection, or the connection is lost
PeerClose ==
    /\ bdPeer = "connected"
    /\ bdPeer' = "closed"
    /\ NoWsWrite
    /\ UNCHANGED <<bdPc, bdReq, bdWs, bdPeerSent, bdIn, bdRead, bdBad, bdMsg,
                   bdFwd, bdReqCtx, bdCtx, bdCloseSent, bdUp, bdDown, bdRecvPc,
                   bdRecvMsg, bdDone, bdWait, bdSrvPc>>
    /\ UNCHANGED bdLog
    /\ UNCHANGED bdOthers

\* the steps of the handler itself
BidiHandlerStep ==
    \/ BidiUpgrade
    \/ BidiAck
    \/ BidiOpen
    \/ BidiSpawn
    \/ BidiRead
    \/ BidiSend
    \/ BidiSendNotify
    \/ BidiCancel
    \/ BidiCloseSend
    \/ BidiWaitDone
    \/ BidiWaitTimeout
    \/ BidiReturn

BidiStep ==
    \/ \E u \in BOOLEAN : BidiArrive(u)
    \/ BidiHandlerStep
    \/ BidiRecv
    \/ BidiRecvWrite
    \/ BidiRecvNotify
    \/ BidiRecvPost
    \/ BackendBidiStep
    \/ BackendBidiFail
    \/ \E f \in PeerFrames : PeerSend(f)
    \/ PeerClose

(***************************************************************************)
(* Properties of the bidirectional bridge.                                 *)
(***************************************************************************)
\* the names of a sequence of frames
RECURSIVE NamesOf(_)
NamesOf(q) == IF q = <<>> THEN <<>> ELSE <<Head(q).name>> \o NamesOf(Tail(q))

\* the frames that carry a name
Named(q) == SelectSeq(q, LAMBDA f : f.valid /\ ~SkipName(f.name))

C5_ForwardedInOrder ==
    /\ [](IsPrefix(bdRead, SelectSeq(bdPeerSent, LAMBDA f : f.valid))
            /\ IsPrefix(bdFwd, NamesOf(Named(bdPeerSent))))
    /\ [][(bdPc \in AfterLoop) =>
             /\ bdFwd' = bdFwd
             /\ bdPc' \in AfterLoop
             /\ Len(SelectSeq(bdUp', LAMBDA it : it.kind = "msg"))
                  <= Len(SelectSeq(bdUp, LAMBDA it : it.kind = "msg"))]_vars

\* two different names were forwarded in their order, the Send of a third
\* failed, and the handler returned
C5_Witness ==
    /\ bdFwd = <<"a", "b">>
    /\ NamesOf(bdPeerSent) = <<"a", "b", "a">>
    /\ Len(bdRead) = 3
    /\ bdPc = "returned"

\* C6: after its send loop the handler cancels the session context, then
\* calls CloseSend, then waits for the receive goroutine or the timer, and
\* from the end of the send loop on it always comes to return, whatever the
\* receive goroutine does.
C6_ShutdownSequence ==
    /\ [](/\ bdCloseSent => CtxDone(bdCtx)
          /\ (bdPc = "closeSend") => (CtxDone(bdCtx) /\ ~bdCloseSent)
          /\ (bdPc = "wait") => bdCloseSent
          /\ (bdWait # "none") => bdCloseSent
          /\ (bdWait = "clean") => bdRecvPc = "exited")
    /\ ((bdPc \in AfterLoop) ~> (bdPc = "returned"))

\* the handler returned on the timer while the receive goroutine still ran
C6_Witness ==
    /\ bdPc = "returned"
    /\ bdWait = "timeout"
    /\ bdRecvPc \in {"recv", "write", "notify"}
    /\ bdCloseSent

\* C7: the first frame written to the WebSocket of a session, and the first
\* to reach the peer, is the connection message, and it is written once.
C7_AckFirst ==
    /\ (bdWrites # <<>>) => bdWrites[1] = AckFrame
    /\ (bdOut # <<>>) => bdOut[1] = AckFrame
    /\ \A k \in 2..Len(bdWrites) : bdWrites[k] # AckFrame
    /\ (bdRecvPc # "none" \/ bdPc \in {"open", "spawn", "read", "send"} \cup AfterLoop)
          => (bdWrites # <<>> \/ ~bdReq.upgradable)

\* the peer got the connection message and then an echo
C7_Witness ==
    /\ Len(bdOut) >= 2
    /\ bdOut[1] = AckFrame
    /\ bdOut[2] = MessageFrame(EchoMessage("a"))

\* the notices that end the receive goroutine
Terminal(f) == f = EndFrame \/ f = ErrorFrame("gRPC receive error")

\* the frames the receive goroutine wrote, in their order
RecvWrites ==
    SelectSeq(bdWrites,
              LAMBDA f : (f.key = "message" /\ f # AckFrame) \/ Terminal(f))

\* the echoes of the back end for what was forwarded, as frames
EchoFrames == [k \in 1..Len(bdFwd) |-> MessageFrame(EchoMessage(bdFwd[k]))]

\* C18: the receive goroutine writes the messages of the back end in their
\* order; a notice ("Stream ended" after the end of the stream, the error
\* notice after an error) is written once, as its last frame, and the
\* goroutine ends after it; it ends without a notice only after a write of
\* its own failed.
C18_ReceiveTaskNotices ==
    LET w == RecvWrites IN
      /\ IsPrefix(SelectSeq(w, LAMBDA f : ~Terminal(f)), EchoFrames)
      /\ \A k \in 1..Len(w) : Terminal(w[k]) => k = Len(w)
      /\ (w # <<>> /\ Terminal(w[Len(w)])) =>
            (bdRecvPc \in {"post", "exited"} /\ w[Len(w)] = bdRecvMsg)
      /\ (bdRecvPc = "notify") => Terminal(bdRecvMsg)
      /\ (bdRecvPc \in {"post", "exited"}) =>
            ((w # <<>> /\ Terminal(w[Len(w)])) \/ bdWriteErr)

\* the goroutine wrote an echo, then the error notice, and ended
C18_Witness ==
    /\ RecvWrites = <<MessageFrame(EchoMessage("a")),
                      ErrorFrame("gRPC receive error")>>
    /\ bdRecvPc = "exited"

\* the upgrade succeeded and grpcClient.SayHelloBidirectional failed
BidiOpenFailed ==
    /\ bdReq.upgradable
    /\ bdPc \in {"exit", "returned"}
    /\ bdWait = "none"

\* C19: in a session whose RPC stream failed to open the peer does not
\* receive the connection message.
C19_AckOnlyAfterOpen ==
    BidiOpenFailed => \A k \in 1..Len(bdOut) : bdOut[k] # AckFrame

\* C20 as stated: when the handler of a session that started its receive
\* goroutine has returned and closed the WebSocket, the goroutine has ended.
C20_BothTasksEnded ==
    (bdPc = "returned" /\ bdRecvPc # "none") => bdRecvPc = "exited"

\* C20, amended: a session whose RPC stream opened has one receive
\* goroutine beside its send loop; the WebSocket is closed only when the
\* handler returns, after its send loop, and by then the goroutine has ended
\* or the wait for it has timed out.
C20_TasksEndedOrTimedOut ==
    /\ (bdRecvPc = "none") <=>
          (bdPc \in {"idle", "upgrade", "ack", "open", "spawn"}
             \/ (bdPc \in {"exit", "returned"} /\ bdWait = "none"))
    /\ (bdWs = "closed") => bdPc = "returned"
    /\ (bdPc = "returned" /\ bdRecvPc # "none") =>
          \/ bdWait = "clean" /\ bdRecvPc = "exited"
          \/ bdWait = "timeout"
    /\ (bdWait = "clean") => bdRecvPc = "exited"

\* the handler returned after the signal of the goroutine
C20_Witness ==
    /\ bdPc = "returned"
    /\ bdWait = "clean"
    /\ bdRecvPc = "exited"
    /\ bdWs = "closed"

\* C21: once the receive goroutine has ended, because the stream of the back
\* end ended or failed, the handler returns and closes the WebSocket, with no
\* frame and no close of the peer needed.
C21_ClosesWhenBackendEnds ==
    (bdRecvPc = "exited" /\ bdPeer = "connected") ~> (bdPc = "returned")

\* the entries of the log about the inbound frame k
LogAbout(k) == {e \in bdLog : e[2] = k}

\* the error frames among the frames written to the WebSocket
ErrorWrites == SelectSeq(bdWrites, LAMBDA f : f.key = "error")

\* C22: every frame read from the peer has a log entry (the entry of its
\* forwarding, or of the failure to forward it); a frame that could not be
\* decoded, a failed stream.Recv and a failed stream.Send have a log entry
\* and, written while the WebSocket could be written, an error frame to the
\* peer; a failed write of a message by the receive goroutine has a log
\* entry.
C22_NoSilentDrop ==
    /\ \A k \in 1..Len(bdRead) : LogAbout(k) # {}
    /\ (bdBad /\ bdPc \in AfterLoop) =>
          /\ <<"read error", 0>> \in bdLog
          /\ (bdPeer = "connected" /\ ~bdWriteErr) => ErrorWrites # <<>>
    /\ (bdRecvPc \in {"post", "exited"} /\ bdRecvMsg.key = "error") =>
          /\ <<"receive error", 0>> \in bdLog
          /\ bdRecvMsg = ErrorWrites[Len(ErrorWrites)]
    /\ \A k \in 1..Len(bdRead) :
          (<<"send error", k>> \in bdLog /\ bdPc # "sendFailed") =>
             \E j \in 1..Len(ErrorWrites) :
                ErrorWrites[j] = ErrorFrame("Failed to send message")
    /\ (bdRecvPc = "exited" /\ bdWriteErr /\ ~Terminal(bdRecvMsg)) =>
          <<"write error", 0>> \in bdLog

\* the upgrade succeeded and grpcClient.SayHelloBidirectional returned an
\* error, as the log tells
OpenErrorLogged == <<"stream error", 0>> \in bdLog

\* C23: after the RPC stream failed to open, the error frame is the last
\* frame written to the WebSocket and the peer receives it unless the write
\* failed; the receive goroutine is never started, no frame is read from the
\* peer and none forwarded; the handler returns and closes the WebSocket.
C23_OpenFailureEndsSession ==
    /\ [](OpenErrorLogged =>
            /\ bdPc \in {"exit", "returned"}
            /\ bdWrites # <<>>
            /\ bdWrites[Len(bdWrites)] =
                  ErrorFrame("Failed to connect to gRPC server")
            /\ bdWriteErr
                 \/ (bdOut # <<>> /\ bdOut[Len(bdOut)] =
                        ErrorFrame("Failed to connect to gRPC server"))
            /\ bdRecvPc = "none"
            /\ bdRead = <<>>
            /\ bdFwd = <<>>
            /\ bdWait = "none")
    /\ (OpenErrorLogged ~> (bdPc = "returned" /\ bdWs = "closed"))

\* the peer received the error frame of the failed open and the WebSocket
\* was closed, with a frame of the peer left unread
C23_Witness ==
    /\ OpenErrorLogged
    /\ bdPc = "returned"
    /\ bdWs = "closed"
    /\ bdIn # <<>>
    /\ ~bdWriteErr
    /\ bdOut[Len(bdOut)] = ErrorFrame("Failed to connect to gRPC server")

(***************************************************************************)
(* Rate limiter: rateLimitMiddleware in front of every /api route.         *)
(*                                                                         *)
(* Time is counted in ticks of 1/rps seconds, the time in which a          *)
(* rate.Limiter of that rate refills one token.                            *)
(***************************************************************************)
\* the goroutines of the HTTP server that serve requests at the same time
Handlers == {"h1", "h2"}

\* r.RemoteAddr and the X-Forwarded-For header ("" when absent)
RemoteAddrs == {"10.0.0.1:5000"}
ForwardedFor == {"", "10.0.0.2"}

\* ip := r.RemoteAddr; if forwarded != "" { ip = forwarded }
ClientIdentity(remote, forwarded) == IF forwarded # "" THEN forwarded ELSE remote

Identities == {ClientIdentity(a, f) : a \in RemoteAddrs, f \in ForwardedFor}

\* the routes behind rateLimitMiddleware and their chains of middleware
LimitedRoutes ==
    {"/api/unary", "/api/server-stream", "/api/client-stream", "/api/bidirectional"}

Chain(route) ==
    CASE route = "/api/unary" ->
            <<"rateLimit", "gzip", "cors", "logger", "handleUnary">>
      [] route = "/api/server-stream" ->
            <<"rateLimit", "cors", "logger", "handleServerStream">>
      [] route = "/api/client-stream" ->
            <<"rateLimit", "gzip", "cors", "logger", "handleClientStream">>
      [] route = "/api/bidirectional" ->
            <<"rateLimit", "cors", "logger", "handleBidirectional">>
      [] OTHER -> <<"cors", "health">>

\* rate.NewLimiter(rl.rate, rl.burst): a full bucket
NewLimiter(now) == [tokens |-> RateLimitBurst, last |-> now]

\* tokens refilled in a number of ticks
TokensFromTicks(e) == e

Min(a, b) == IF a < b THEN a ELSE b

\* the tokens of a limiter at a time: refilled since its last update, capped
\* at the burst
TokensAt(lim, now) ==
    Min(RateLimitBurst, lim.tokens + TokensFromTicks(now - lim.last))

\* limiter.Allow(): is a token there
Allowed(lim, now) == TokensAt(lim, now) >= 1

\* limiter.Allow(): the limiter after it, one token less when it admitted
AfterAllow(lim, now) ==
    IF Allowed(lim, now)
      THEN [tokens |-> TokensAt(lim, now) - 1, last |-> now]
      ELSE lim

\* the ticks whose admissions rlAdm counts
AdmissionsCounted(i) == rlNow = 0 \/ rlDeniedBefore[i]

IdleHandler ==
    [pc |-> "idle", ip |-> "", fwd |-> "", lim |-> 0, verdict |-> "none",
     status |-> 0, stages |-> <<>>]

rlInit ==
    /\ rlNow = 0
    /\ rlLimiters = <<>>
    /\ rlMap = [i \in Identities |-> 0]
    /\ rlH = [h \in Handlers |-> IdleHandler]
    /\ rlAdm = [i \in Identities |-> 0]
    /\ rlDenied = [i \in Identities |-> FALSE]
    /\ rlDeniedBefore = [i \in Identities |-> FALSE]

\* rateLimitMiddleware, getLimiter up to RUnlock: the identity of the request
\* and the limiter the map holds for it, if any
RateLimitLookup(h, remote, forwarded) ==
    /\ rlH[h].pc = "idle"
    /\ LET ip == ClientIdentity(remote, forwarded) IN
         rlH' = [rlH EXCEPT ![h] =
                    [IdleHandler EXCEPT !.ip = ip, !.fwd = forwarded,
                        !.lim = rlMap[ip],
                        !.stages = <<"rateLimit">>,
                        !.pc = IF rlMap[ip] = 0 THEN "create" ELSE "allow"]]
    /\ UNCHANGED <<rlNow, rlLimiters, rlMap, rlAdm, rlDenied, rlDeniedBefore>>
    /\ UNCHANGED rlOthers

\* a faulty getLimiter: the new limiter is stored for every identity
RateLimitCreateShared(h) ==
    /\ rlH[h].pc = "create"
    /\ rlLimiters' = Append(rlLimiters, NewLimiter(rlNow))
    /\ rlMap' = [i \in Identities |-> Len(rlLimiters) + 1]
    /\ rlH' = [rlH EXCEPT ![h].lim = Len(rlLimiters) + 1, ![h].pc = "allow"]
    /\ UNCHANGED <<rlNow, rlAdm, rlDenied, rlDeniedBefore>>
    /\ UNCHANGED rlOthers

\* getLimiter, if !exists: under the write lock a new limiter is made and
\* stored for the identity
RateLimitCreate(h) ==
    /\ rlH[h].pc = "create"
    /\ rlLimiters' = Append(rlLimiters, NewLimiter(rlNow))
    /\ rlMap' = [rlMap EXCEPT ![rlH[h].ip] = Len(rlLimiters) + 1]
    /\ rlH' = [rlH EXCEPT ![h].lim = Len(rlLimiters) + 1, ![h].pc = "allow"]
    /\ UNCHANGED <<rlNow, rlAdm, rlDenied, rlDeniedBefore>>
    /\ UNCHANGED rlOthers

\* a faulty middleware: the 429 is written but the return after it is missing
RateLimitAllowFallingThrough(h) ==
    /\ rlH[h].pc = "allow"
    /\ LET lim == rlLimiters[rlH[h].lim] IN
         /\ rlLimiters' = [rlLimiters EXCEPT ![rlH[h].lim] = AfterAllow(lim, rlNow)]
         /\ IF Allowed(lim, rlNow)
              THEN /\ rlH' = [rlH EXCEPT ![h].verdict = "admit", ![h].pc = "next"]
                   /\ rlAdm' = IF AdmissionsCounted(rlH[h].ip)
                                 THEN [rlAdm EXCEPT ![rlH[h].ip] = @ + 1]
                                 ELSE rlAdm
                   /\ UNCHANGED rlDenied
              ELSE /\ rlH' = [rlH EXCEPT ![h].verdict = "deny", ![h].status = 429,
                                         ![h].pc = "next"]
                   /\ rlDenied' = [rlDenied EXCEPT ![rlH[h].ip] = TRUE]
                   /\ UNCHANGED rlAdm
    /\ UNCHANGED <<rlNow, rlMap, rlDeniedBefore>>
    /\ UNCHANGED rlOthers

\* if !limiter.Allow() { http.Error(w, ..., 429); return }
RateLimitAllow(h) ==
    /\ rlH[h].pc = "allow"
    /\ LET lim == rlLimiters[rlH[h].lim] IN
         /\ rlLimiters' = [rlLimiters EXCEPT ![rlH[h].lim] = AfterAllow(lim, rlNow)]
         /\ IF Allowed(lim, rlNow)
              THEN /\ rlH' = [rlH EXCEPT ![h].verdict = "admit", ![h].pc = "next"]
                   /\ rlAdm' = IF AdmissionsCounted(rlH[h].ip)
                                 THEN [rlAdm EXCEPT ![rlH[h].ip] = @ + 1]
                                 ELSE rlAdm
                   /\ UNCHANGED rlDenied
              ELSE /\ rlH' = [rlH EXCEPT ![h].verdict = "deny", ![h].status = 429,
                                         ![h].pc = "done"]
                   /\ rlDenied' = [rlDenied EXCEPT ![rlH[h].ip] = TRUE]
                   /\ UNCHANGED rlAdm
    /\ UNCHANGED <<rlNow, rlMap, rlDeniedBefore>>
    /\ UNCHANGED rlOthers

\* next(w, r): the rest of the route's chain and its bridge run
RateLimitNext(h, route) ==
    /\ rlH[h].pc = "next"
    /\ rlH' = [rlH EXCEPT ![h].stages = Chain(route), ![h].pc = "done"]
    /\ UNCHANGED <<rlNow, rlLimiters, rlMap, rlAdm, rlDenied, rlDeniedBefore>>
    /\ UNCHANGED rlOthers

\* the request is over, the goroutine takes the next one
RateLimitFinish(h) ==
    /\ rlH[h].pc = "done"
    /\ rlH' = [rlH EXCEPT ![h] = IdleHandler]
    /\ UNCHANGED <<rlNow, rlLimiters, rlMap, rlAdm, rlDenied, rlDeniedBefore>>
    /\ UNCHANGED rlOthers

\* one tick (1/rps seconds) passes
RateLimitTick ==
    /\ rlNow < MaxNow
    /\ rlNow' = rlNow + 1
    /\ rlAdm' = [i \in Identities |-> 0]
    /\ rlDeniedBefore' = rlDenied
    /\ rlDenied' = [i \in Identities |-> FALSE]
    /\ UNCHANGED <<rlLimiters, rlMap, rlH>>
    /\ UNCHANGED rlOthers

\* the requests of one client without a proxy
RateLimitStep ==
    \/ \E h \in Handlers, a \in RemoteAddrs : RateLimitLookup(h, a, "")
    \/ \E h \in Handlers : RateLimitCreate(h)
    \/ \E h \in Handlers : RateLimitAllow(h)
    \/ \E h \in Handlers, r \in LimitedRoutes : RateLimitNext(h, r)
    \/ \E h \in Handlers : RateLimitFinish(h)
    \/ RateLimitTick

\* the requests of two clients on one route: h1 serves requests without
\* X-Forwarded-For, h2 serves requests with and without the header
RateLimitTwoStep ==
    \/ \E a \in RemoteAddrs : RateLimitLookup("h1", a, "")
    \/ \E a \in RemoteAddrs, f \in ForwardedFor : RateLimitLookup("h2", a, f)
    \/ \E h \in Handlers : RateLimitCreate(h)
    \/ \E h \in Handlers : RateLimitAllow(h)
    \/ \E h \in Handlers : RateLimitNext(h, "/api/client-stream")
    \/ \E h \in Handlers : RateLimitFinish(h)
    \/ RateLimitTick

(***************************************************************************)
(* Properties of the rate limiter.                                         *)
(***************************************************************************)
\* C8: of the requests of an identity made in one instant exactly
\* RateLimitBurst are admitted and the next one is denied, one tick (1/R s)
\* after a denial exactly one more request is admitted, and the tokens of a
\* bucket stay between 0 and the burst.
C8_BurstThenRefill ==
    /\ \A i \in Identities :
          /\ rlAdm[i] <= RateLimitBurst
          /\ (rlNow = 0 /\ rlDenied[i]) => rlAdm[i] = RateLimitBurst
          /\ rlDeniedBefore[i] => rlAdm[i] <= 1
    /\ \A k \in 1..Len(rlLimiters) :
          rlLimiters[k].tokens \in 0..RateLimitBurst

\* C9: a request the rate limiter denied has the status 429 and no stage
\* behind the rate limiter ran for it; an admitted request has no status of
\* the rate limiter and goes on into the chain of its route.
C9_DeniedStopsAtLimiter ==
    \A h \in Handlers :
      /\ (rlH[h].verdict = "deny") =>
            /\ rlH[h].status = 429
            /\ rlH[h].stages = <<"rateLimit">>
            /\ rlH[h].pc = "done"
      /\ (rlH[h].status = 429) => rlH[h].verdict = "deny"
      /\ (rlH[h].pc = "next") => rlH[h].verdict = "admit"
      /\ (Len(rlH[h].stages) > 1) => rlH[h].verdict = "admit"

\* one request was denied with an empty bucket while another, admitted
\* before, is in its bridge
C9_Witness ==
    /\ rlH["h1"].verdict = "deny"
    /\ rlH["h1"].status = 429
    /\ rlH["h2"].pc = "done"
    /\ Len(rlH["h2"].stages) > 1
    /\ rlLimiters[rlMap["10.0.0.1:5000"]].tokens = 0

\* C10: all requests of an identity use one bucket: a handler that is about
\* to call Allow holds the limiter the map holds for its identity, and no
\* identity ever gets a second limiter.
C10_OneBucketPerIdentity ==
    /\ Len(rlLimiters) <= Cardinality({i \in Identities : rlMap[i] # 0})
    /\ \A h \in Handlers :
          (rlH[h].pc = "allow") => rlH[h].lim = rlMap[rlH[h].ip]

\* the limiters that handlers of an identity hold or the map holds for it,
\* with their state
BucketsOf(i) ==
    {<<k, rlLimiters[k]>> :
        k \in ({rlMap[i]} \cup {rlH[h].lim : h \in {g \in Handlers : rlH[g].ip = i}})
               \ {0}}

\* a handler moves in the step for a request of identity i
ServesIn(h, i) == rlH'[h] # rlH[h] /\ (rlH[h].ip = i \/ rlH'[h].ip = i)

\* C35: the identity of a request is its X-Forwarded-For when the header is
\* there and its peer address otherwise; the limiter a handler calls is one
\* of its own identity, no limiter belongs to two identities, and a step in
\* which no handler moves for a request of an identity leaves the limiters
\* of that identity, their tokens and the counts of its admissions and
\* denials as they are.
C35_BucketsIndependent ==
    /\ [](\A h \in Handlers :
            (rlH[h].pc # "idle") =>
               /\ (rlH[h].fwd # "") => rlH[h].ip = rlH[h].fwd
               /\ (rlH[h].fwd = "") => rlH[h].ip \in RemoteAddrs)
    /\ [](\A i, j \in Identities :
            (i # j) =>
               {b[1] : b \in BucketsOf(i)} \cap {b[1] : b \in BucketsOf(j)} = {})
    /\ [][\A i \in Identities :
            (\A h \in Handlers : ~ServesIn(h, i)) =>
               /\ BucketsOf(i)' = BucketsOf(i)
               /\ rlMap'[i] = rlMap[i]
               /\ (rlNow' = rlNow) =>
                     /\ rlAdm'[i] = rlAdm[i]
                     /\ rlDenied'[i] = rlDenied[i]]_vars

\* the bucket of the direct client is empty and its request was denied,
\* while the client named by the proxy has spent one token and is admitted
C35_Witness ==
    /\ rlMap["10.0.0.1:5000"] # 0
    /\ rlMap["10.0.0.2"] # 0
    /\ rlLimiters[rlMap["10.0.0.1:5000"]].tokens = 0
    /\ rlH["h1"].ip = "10.0.0.1:5000"
    /\ rlH["h1"].verdict = "deny"
    /\ rlH["h2"].fwd = "10.0.0.2"
    /\ rlH["h2"].ip = "10.0.0.2"
    /\ rlH["h2"].verdict = "admit"
    /\ rlLimiters[rlMap["10.0.0.2"]].tokens = RateLimitBurst - 1

(***************************************************************************)
(* Life cycle of the gateway process: main and the pooled connection of    *)
(* grpc_client (initGRPCConnection, closeGRPCConnection).                  *)
(***************************************************************************)
\* the connections the HTTP server serves at the same time
Conns == {"c1", "c2"}

\* the routes whose handlers use the pooled connection
BridgeRoutes ==
    {"/api/unary", "/api/server-stream", "/api/client-stream", "/api/bidirectional"}

\* a connection of the HTTP server: "free" (none, or idle), "active" (a
\* handler runs on it) or "hijacked" (the handler took it over with Upgrade),
\* and the RPC call or stream its handler has on the pooled connection:
\* "none", "open" or "failed"
FreeConn == [st |-> "free", route |-> "", rpc |-> "none"]

\* handlers that run
InFlight == {c \in Conns : lcH[c].st # "free"}

\* connections srv.Shutdown waits for: it does not wait for hijacked ones
Tracked == {c \in Conns : lcH[c].st = "active"}

lcInit ==
    /\ lcPc = "init"
    /\ lcExit = "none"
    /\ lcDial = "none"
    /\ lcConn = "nil"
    /\ lcDials = 0
    /\ lcCalls = 0
    /\ lcCloses = 0
    /\ lcCloseErr = FALSE
    /\ lcListener = "none"
    /\ lcSignal = FALSE
    /\ lcH = [c \in Conns |-> FreeConn]

\* log.Fatalf: os.Exit(1), no deferred call runs, every goroutine ends
Fatal ==
    /\ lcPc' = "exited"
    /\ lcExit' = "fatal"
    /\ lcH' = [c \in Conns |-> FreeConn]

\* a faulty main: the error of initGRPCConnection is dropped
MainInitIgnoringError(res) ==
    /\ lcPc = "init"
    /\ lcDial' = res
    /\ lcPc' = "setup"
    /\ IF res = "ok"
         THEN lcConn' = "open" /\ lcDials' = lcDials + 1
         ELSE UNCHANGED <<lcConn, lcDials>>
    /\ UNCHANGED <<lcExit, lcCalls, lcCloses, lcCloseErr, lcListener, lcSignal,
                   lcH>>
    /\ UNCHANGED lcOthers

\* initGRPCConnection(): grpc.Dial gives the connection or an error; on an
\* error main ends the process with log.Fatalf
MainInit(res) ==
    /\ lcPc = "init"
    /\ lcDial' = res
    /\ IF res = "ok"
         THEN /\ lcConn' = "open"
              /\ lcDials' = lcDials + 1
              /\ lcPc' = "setup"
              /\ UNCHANGED <<lcExit, lcH>>
         ELSE /\ Fatal
              /\ UNCHANGED <<lcConn, lcDials>>
    /\ UNCHANGED <<lcCalls, lcCloses, lcCloseErr, lcListener, lcSignal>>
    /\ UNCHANGED lcOthers

\* defer closeGRPCConnection(), the server value, the routes, the goroutine
\* of ListenAndServe, signal.Notify: main waits for a signal
MainSetup ==
    /\ lcPc = "setup"
    /\ lcListener' = "starting"
    /\ lcPc' = "wait"
    /\ UNCHANGED <<lcExit, lcDial, lcConn, lcDials, lcCalls, lcCloses,
                   lcCloseErr, lcSignal, lcH>>
    /\ UNCHANGED lcOthers

\* srv.ListenAndServe() in its goroutine: it listens, or it fails and ends
\* the process, or the server was shut down before (ErrServerClosed)
ListenAndServe(ok) ==
    /\ lcListener = "starting"
    /\ lcPc # "exited"
    /\ IF lcPc # "wait"
         THEN /\ lcListener' = "closed"
              /\ UNCHANGED <<lcPc, lcExit, lcH>>
         ELSE IF ok
           THEN /\ lcListener' = "listening"
                /\ UNCHANGED <<lcPc, lcExit, lcH>>
           ELSE /\ lcListener' = "failed"
                /\ Fatal
    /\ UNCHANGED <<lcDial, lcConn, lcDials, lcCalls, lcCloses, lcCloseErr,
                   lcSignal>>
    /\ UNCHANGED lcOthers

\* <-quit, context.WithTimeout(10s), srv.Shutdown(ctx) begins: the listener
\* is closed
MainSignal ==
    /\ lcPc = "wait"
    /\ lcSignal' = TRUE
    /\ lcPc' = "shutdown"
    /\ lcListener' = IF lcListener = "listening" THEN "closed" ELSE lcListener
    /\ UNCHANGED <<lcExit, lcDial, lcConn, lcDials, lcCalls, lcCloses,
                   lcCloseErr, lcH>>
    /\ UNCHANGED lcOthers

\* srv.Shutdown(ctx) returns nil: no connection it waits for is active; main
\* returns and its deferred calls begin with cancel()
ShutdownDone ==
    /\ lcPc = "shutdown"
    /\ Tracked = {}
    /\ lcPc' = "deferClose"
    /\ UNCHANGED <<lcExit, lcDial, lcConn, lcDials, lcCalls, lcCloses,
                   lcCloseErr, lcListener, lcSignal, lcH>>
    /\ UNCHANGED lcOthers

\* a faulty shutdown: its context has no deadline, it waits on for the
\* active connections
ShutdownWaitingOn ==
    /\ lcPc = "shutdown"
    /\ Tracked # {}
    /\ UNCHANGED lcVars
    /\ UNCHANGED lcOthers

\* srv.Shutdown(ctx) returns the error of the context after the 10 s while a
\* connection is still active: log.Fatalf
ShutdownExpired ==
    /\ lcPc = "shutdown"
    /\ Tracked # {}
    /\ Fatal
    /\ UNCHANGED <<lcDial, lcConn, lcDials, lcCalls, lcCloses, lcCloseErr,
                   lcListener, lcSignal>>
    /\ UNCHANGED lcOthers

\* closeGRPCConnection(): if grpcConn != nil { grpcConn.Close() }; grpcConn
\* keeps its value, and Close() of a closed connection returns an error
CloseGRPCConnection ==
    /\ lcCalls' = lcCalls + 1
    /\ IF lcConn # "nil"
         THEN /\ lcCloses' = lcCloses + 1
              /\ lcCloseErr' = (lcCloseErr \/ lcConn = "closed")
              /\ lcConn' = "closed"
         ELSE UNCHANGED <<lcCloses, lcCloseErr, lcConn>>

\* the deferred closeGRPCConnection() of main
MainDeferClose ==
    /\ lcPc = "deferClose"
    /\ CloseGRPCConnection
    /\ lcPc' = "closed"
    /\ lcH' = [c \in Conns |->
                 IF lcH[c].rpc = "open" /\ lcConn # "nil"
                   THEN [lcH[c] EXCEPT !.rpc = "failed"] ELSE lcH[c]]
    /\ UNCHANGED <<lcExit, lcDial, lcDials, lcListener, lcSignal>>
    /\ UNCHANGED lcOthers

\* main has returned: the process ends with all its goroutines
ProcessExit ==
    /\ lcPc = "closed"
    /\ lcPc' = "exited"
    /\ lcExit' = "normal"
    /\ lcH' = [c \in Conns |-> FreeConn]
    /\ UNCHANGED <<lcDial, lcConn, lcDials, lcCalls, lcCloses, lcCloseErr,
                   lcListener, lcSignal>>
    /\ UNCHANGED lcOthers

\* the shutdown's closeGRPCConnection() is invoked once more
CloseGRPCConnectionAgain ==
    /\ lcPc = "closed"
    /\ lcCalls < MaxCloseCalls
    /\ CloseGRPCConnection
    /\ UNCHANGED <<lcPc, lcExit, lcDial, lcDials, lcListener, lcSignal, lcH>>
    /\ UNCHANGED lcOthers

\* the server accepts a connection and starts the handler of a route on it
HandlerStart(c, route) ==
    /\ lcListener = "listening"
    /\ lcPc # "exited"
    /\ lcH[c].st = "free"
    /\ lcH' = [lcH EXCEPT ![c] = [st |-> "active", route |-> route,
                                  rpc |-> "none"]]
    /\ UNCHANGED <<lcPc, lcExit, lcDial, lcConn, lcDials, lcCalls, lcCloses,
                   lcCloseErr, lcListener, lcSignal>>
    /\ UNCHANGED lcOthers

\* handleBidirectional: upgrader.Upgrade succeeds, the connection is hijacked
HandlerUpgrade(c) ==
    /\ lcPc # "exited"
    /\ lcH[c].st = "active"
    /\ lcH[c].route = "/api/bidirectional"
    /\ lcH[c].rpc = "none"
    /\ lcH' = [lcH EXCEPT ![c].st = "hijacked"]
    /\ UNCHANGED <<lcPc, lcExit, lcDial, lcConn, lcDials, lcCalls, lcCloses,
                   lcCloseErr, lcListener, lcSignal>>
    /\ UNCHANGED lcOthers

\* grpcClient.SayHelloServerStream, SayHelloClientStream or
\* SayHelloBidirectional (after the upgrade): the handler opens its call on
\* the pooled connection; on a closed connection the call fails
HandlerCall(c) ==
    /\ lcPc # "exited"
    /\ lcH[c].rpc = "none"
    /\ \/ lcH[c].st = "active" /\ lcH[c].route \in {"/api/server-stream",
                                                     "/api/client-stream"}
       \/ lcH[c].st = "hijacked"
    /\ lcH' = [lcH EXCEPT ![c].rpc = IF lcConn = "open" THEN "open" ELSE "failed"]
    /\ UNCHANGED <<lcPc, lcExit, lcDial, lcConn, lcDials, lcCalls, lcCloses,
                   lcCloseErr, lcListener, lcSignal>>
    /\ UNCHANGED lcOthers

\* a handler returns
HandlerReturn(c) ==
    /\ lcPc # "exited"
    /\ lcH[c].st # "free"
    /\ lcH' = [lcH EXCEPT ![c] = FreeConn]
    /\ UNCHANGED <<lcPc, lcExit, lcDial, lcConn, lcDials, lcCalls, lcCloses,
                   lcCloseErr, lcListener, lcSignal>>
    /\ UNCHANGED lcOthers

\* the steps of main from srv.Shutdown on
MainStep ==
    \/ ShutdownDone
    \/ ShutdownExpired
    \/ MainDeferClose
    \/ ProcessExit

LifecycleStep ==
    \/ \E res \in {"ok", "err"} : MainInit(res)
    \/ MainSetup
    \/ \E ok \in BOOLEAN : ListenAndServe(ok)
    \/ MainSignal
    \/ ShutdownDone
    \/ ShutdownExpired
    \/ MainDeferClose
    \/ ProcessExit
    \/ \E c \in Conns, r \in BridgeRoutes : HandlerStart(c, r)
    \/ \E c \in Conns : HandlerUpgrade(c)
    \/ \E c \in Conns : HandlerCall(c)
    \/ \E c \in Conns : HandlerReturn(c)

(***************************************************************************)
(* The middleware chains of the routes main registers, run for one request *)
(* stage by stage: rateLimitMiddleware, enableGzip, enableCORS,            *)
(* requestLogger and the handler.  A bridge that opens its RPC is followed *)
(* in the specification of that bridge.                                    *)
(*                                                                         *)
(* An origin is the pair of its part up to the port and its port, <<>>     *)
(* when the header is absent; a header value that is no origin is a        *)
(* one-element sequence.                                                   *)
(***************************************************************************)
\* the routes of http.HandleFunc
Routes == LimitedRoutes \cup {"/health"}

MwMethods == {"GET", "POST", "OPTIONS"}

Origins ==
    {<<>>, <<"http://localhost:", "3000">>, <<"http://localhost:", "8080">>,
     <<"http://127.0.0.1:", "5173">>, <<"http://evil.example", "">>}

\* the body of the request
MwBodies == {"", "[\"a\"]", "{\"name\":\"a\"}", "no json"}

\* json.NewDecoder(r.Body).Decode(&names) with names []string
DecodesAsNames(b) == b = "[\"a\"]"

MwRequests ==
    [route : Routes, method : MwMethods, origin : Origins, gzip : BOOLEAN,
     body : MwBodies]

\* strings.HasPrefix(origin, p)
HasPrefix(o, p) == o # <<>> /\ o[1] = p

\* the condition of enableCORS and handleServerStream on the Origin header
LocalOrigin(o) ==
    /\ o # <<>>
    /\ \/ o = <<"http://localhost:", "3000">>
       \/ o = <<"http://localhost:", "3001">>
       \/ HasPrefix(o, "http://localhost:")
       \/ HasPrefix(o, "http://127.0.0.1:")

\* enableCORS: the Access-Control-Allow-Origin it sets
CorsAllowOrigin(o) ==
    IF LocalOrigin(o) THEN o
    ELSE IF o = <<>> THEN <<"*">>
    ELSE <<"http://localhost:", "3000">>

\* handleServerStream: the Access-Control-Allow-Origin it sets again
SseAllowOrigin(o) ==
    IF LocalOrigin(o) THEN o ELSE <<"http://localhost:", "3000">>

\* enableGzip: strings.Contains(r.URL.Path, "stream") ||
\* strings.Contains(r.URL.Path, "bidirectional")
GzipSkipsPath(route) ==
    route \in {"/api/server-stream", "/api/client-stream", "/api/bidirectional"}

\* a faulty enableGzip: every response gets the gzip writer
GzipCompressesAll(req) == TRUE

\* enableGzip: the response is compressed unless the path is skipped or the
\* Accept-Encoding of the request does not contain gzip
GzipCompresses(req) == ~GzipSkipsPath(req.route) /\ req.gzip

NoHeaders ==
    [acao |-> <<>>, acac |-> "", acam |-> "", acah |-> "", enc |-> "",
     ctype |-> ""]

\* enableCORS: Access-Control-Allow-Methods and Access-Control-Allow-Headers
CorsAllowMethods == "POST, GET, OPTIONS, PUT, DELETE"

CorsAllowHeaders ==
    "Content-Type, Authorization, X-Requested-With, Accept, Origin"

\* the body handleUnary writes
UnaryDisabledBody ==
    [error |-> "Service Unavailable",
     message |-> "Unary API endpoint has been disabled",
     status |-> "503"]

\* a unary bridge that is not disabled: it decodes the body and calls the
\* back end
HandleUnaryBridging(req) ==
    IF req.method # "POST"
      THEN [status |-> 405, body |-> "Method not allowed", ctype |-> "text/plain",
            rpc |-> 0]
    ELSE IF req.body # "{\"name\":\"a\"}"
      THEN [status |-> 400, body |-> "bad request", ctype |-> "text/plain",
            rpc |-> 0]
    ELSE [status |-> 200, body |-> [message |-> "Hello a"],
          ctype |-> "application/json", rpc |-> 1]

\* handleUnary: what it writes and the RPC calls it makes
HandleUnary(req) ==
    [status |-> 503, body |-> UnaryDisabledBody, ctype |-> "application/json",
     rpc |-> 0]

\* no responseLogger around the writer
NoLogger == [on |-> FALSE, statusCode |-> 0, under |-> {}]

NoFlush == [calls |-> 0, done |-> 0]

\* responseLogger.WriteHeader: a status the stage writes through the
\* responseLogger is kept in its statusCode
LwRecords ==
    mwLw' = IF mwLw.on /\ mwStatus' # mwStatus
              THEN [mwLw EXCEPT !.statusCode = mwStatus']
              ELSE mwLw

\* responseLogger.Flush: n calls of Flush by the handler reach the writer
\* under the responseLogger if that writer is a Flusher
Flushes(n) ==
    mwFlush' = [calls |-> mwFlush.calls + n,
                done |-> IF mwLw.on /\ "flush" \notin mwLw.under
                           THEN mwFlush.done
                           ELSE mwFlush.done + n]

mwInit ==
    /\ mwPc = "idle"
    /\ mwReq = [route |-> "/health", method |-> "GET", origin |-> <<>>,
                gzip |-> FALSE, body |-> ""]
    /\ mwIdx = 1
    /\ mwStages = <<>>
    /\ mwCaps = {}
    /\ mwHdr = NoHeaders
    /\ mwStatus = 0
    /\ mwBody = ""
    /\ mwRpc = 0
    /\ mwLw = NoLogger
    /\ mwFlush = NoFlush

\* the stage of the chain that runs next
MwStage == Chain(mwReq.route)[mwIdx]

\* the stage ran and calls next(w, r)
MwCallNext ==
    /\ mwStages' = Append(mwStages, MwStage)
    /\ mwIdx' = mwIdx + 1
    /\ UNCHANGED mwPc

\* the stage ran and returns without calling next: the request is answered
MwAnswer ==
    /\ mwStages' = Append(mwStages, MwStage)
    /\ mwPc' = "done"
    /\ UNCHANGED mwIdx

\* the server hands a request to the chain of its route, with its own
\* response writer
MwArrive(req) ==
    /\ mwPc = "idle"
    /\ mwReq' = req
    /\ mwPc' = "run"
    /\ mwIdx' = 1
    /\ mwStages' = <<>>
    /\ mwCaps' = {"flush", "hijack"}
    /\ mwHdr' = NoHeaders
    /\ mwStatus' = 0
    /\ mwBody' = ""
    /\ mwRpc' = 0
    /\ mwLw' = NoLogger
    /\ mwFlush' = NoFlush
    /\ UNCHANGED mwOthers

\* rateLimitMiddleware: Allow() of the identity's limiter admits or denies
MwRateLimit(allow) ==
    /\ mwPc = "run"
    /\ MwStage = "rateLimit"
    /\ IF allow
         THEN MwCallNext /\ UNCHANGED <<mwStatus, mwBody>>
         ELSE /\ MwAnswer
              /\ mwStatus' = 429
              /\ mwBody' = "Rate limit exceeded. Please try again later."
    /\ UNCHANGED <<mwReq, mwCaps, mwHdr, mwRpc>>
    /\ LwRecords
    /\ UNCHANGED mwFlush
    /\ UNCHANGED mwOthers

\* enableGzip: streaming paths and callers without gzip pass, the others get
\* a gzipResponseWriter around the writer
MwGzip ==
    /\ mwPc = "run"
    /\ MwStage = "gzip"
    /\ MwCallNext
    /\ IF ~GzipCompresses(mwReq)
         THEN UNCHANGED <<mwHdr, mwCaps>>
         ELSE /\ mwHdr' = [mwHdr EXCEPT !.enc = "gzip"]
              /\ mwCaps' = {}
    /\ UNCHANGED <<mwReq, mwStatus, mwBody, mwRpc>>
    /\ LwRecords
    /\ UNCHANGED mwFlush
    /\ UNCHANGED mwOthers

\* a faulty enableCORS: the preflight request is passed on like any other
MwCorsPassingPreflight ==
    /\ mwPc = "run"
    /\ MwStage = "cors"
    /\ mwHdr' = [mwHdr EXCEPT !.acao = CorsAllowOrigin(mwReq.origin),
                              !.acam = CorsAllowMethods,
                              !.acah = CorsAllowHeaders,
                              !.acac = "true"]
    /\ MwCallNext
    /\ UNCHANGED <<mwReq, mwCaps, mwStatus, mwBody, mwRpc>>
    /\ LwRecords
    /\ UNCHANGED mwFlush
    /\ UNCHANGED mwOthers

\* enableCORS: the headers, and the answer to a preflight request
MwCors ==
    /\ mwPc = "run"
    /\ MwStage = "cors"
    /\ mwHdr' = [mwHdr EXCEPT !.acao = CorsAllowOrigin(mwReq.origin),
                              !.acam = CorsAllowMethods,
                              !.acah = CorsAllowHeaders,
                              !.acac = "true"]
    /\ IF mwReq.method = "OPTIONS"
         THEN MwAnswer /\ mwStatus' = 200
         ELSE MwCallNext /\ UNCHANGED mwStatus
    /\ UNCHANGED <<mwReq, mwCaps, mwBody, mwRpc>>
    /\ LwRecords
    /\ UNCHANGED mwFlush
    /\ UNCHANGED mwOthers

\* a faulty responseLogger: its Flush does not call the writer under it
MwLoggerNotFlushing ==
    /\ mwPc = "run"
    /\ MwStage = "logger"
    /\ MwCallNext
    /\ mwCaps' = {"flush"}
    /\ UNCHANGED <<mwReq, mwHdr, mwStatus, mwBody, mwRpc>>
    /\ mwLw' = [on |-> TRUE, statusCode |-> 200, under |-> {}]
    /\ UNCHANGED mwFlush
    /\ UNCHANGED mwOthers

\* requestLogger: a responseLogger around the writer, which has WriteHeader
\* and Flush of its own and no Hijack
MwLogger ==
    /\ mwPc = "run"
    /\ MwStage = "logger"
    /\ MwCallNext
    /\ mwCaps' = {"flush"}
    /\ UNCHANGED <<mwReq, mwHdr, mwStatus, mwBody, mwRpc>>
    /\ mwLw' = [on |-> TRUE, statusCode |-> 200, under |-> mwCaps]
    /\ UNCHANGED mwFlush
    /\ UNCHANGED mwOthers

\* handleUnary
MwUnary ==
    /\ mwPc = "run"
    /\ MwStage = "handleUnary"
    /\ MwAnswer
    /\ mwStatus' = HandleUnary(mwReq).status
    /\ mwBody' = HandleUnary(mwReq).body
    /\ mwHdr' = [mwHdr EXCEPT !.ctype = HandleUnary(mwReq).ctype]
    /\ mwRpc' = mwRpc + HandleUnary(mwReq).rpc
    /\ UNCHANGED <<mwReq, mwCaps>>
    /\ LwRecords
    /\ UNCHANGED mwFlush
    /\ UNCHANGED mwOthers

\* the handler of /health
MwHealth ==
    /\ mwPc = "run"
    /\ MwStage = "health"
    /\ MwAnswer
    /\ mwStatus' = 200
    /\ mwBody' = [status |-> "healthy"]
    /\ UNCHANGED <<mwReq, mwCaps, mwHdr, mwRpc>>
    /\ LwRecords
    /\ UNCHANGED mwFlush
    /\ UNCHANGED mwOthers

\* err.Error() of a failed RPC call
RpcError == "rpc error"

\* handleServerStream up to its RPC: the method, the SSE and CORS headers,
\* the Flusher of the writer, grpcClient.SayHelloServerStream, which
\* succeeds or fails
MwServerStream(ok) ==
    /\ mwPc = "run"
    /\ MwStage = "handleServerStream"
    /\ MwAnswer
    /\ IF mwReq.method # "GET"
         THEN /\ mwStatus' = 405
              /\ mwBody' = "Method not allowed"
              /\ UNCHANGED <<mwHdr, mwRpc>>
         ELSE /\ mwHdr' = [mwHdr EXCEPT !.ctype = "text/event-stream",
                                        !.acao = SseAllowOrigin(mwReq.origin),
                                        !.acac = "true"]
              /\ IF "flush" \in mwCaps
                   THEN /\ mwRpc' = mwRpc + 1
                        /\ IF ok
                             THEN UNCHANGED <<mwStatus, mwBody>>
                             ELSE /\ mwStatus' = 500
                                  /\ mwBody' = RpcError
                   ELSE /\ mwStatus' = 500
                        /\ mwBody' = "Streaming unsupported"
                        /\ UNCHANGED mwRpc
    /\ UNCHANGED <<mwReq, mwCaps>>
    /\ LwRecords
    /\ Flushes(IF mwRpc' = mwRpc + 1 /\ ok THEN ServerStreamCount + 1 ELSE 0)
    /\ UNCHANGED mwOthers

\* a faulty bridge: the RPC stream is opened before the body is decoded
MwClientStreamCallingFirst(ok) ==
    /\ mwPc = "run"
    /\ MwStage = "handleClientStream"
    /\ MwAnswer
    /\ IF mwReq.method # "POST"
         THEN /\ mwStatus' = 405
              /\ mwBody' = "Method not allowed"
              /\ UNCHANGED mwRpc
         ELSE /\ mwRpc' = mwRpc + 1
              /\ IF ~DecodesAsNames(mwReq.body)
                   THEN /\ mwStatus' = 400
                        /\ mwBody' = "decode error"
                   ELSE IF ok
                     THEN UNCHANGED <<mwStatus, mwBody>>
                     ELSE /\ mwStatus' = 500
                          /\ mwBody' = RpcError
    /\ UNCHANGED <<mwReq, mwCaps, mwHdr>>
    /\ LwRecords
    /\ UNCHANGED mwFlush
    /\ UNCHANGED mwOthers

\* a faulty bridge: a failed call is made a second time
MwClientStreamRetrying(ok) ==
    /\ mwPc = "run"
    /\ MwStage = "handleClientStream"
    /\ MwAnswer
    /\ IF mwReq.method # "POST"
         THEN /\ mwStatus' = 405
              /\ mwBody' = "Method not allowed"
              /\ UNCHANGED mwRpc
         ELSE IF ~DecodesAsNames(mwReq.body)
           THEN /\ mwStatus' = 400
                /\ mwBody' = "decode error"
                /\ UNCHANGED mwRpc
           ELSE /\ mwRpc' = IF ok THEN mwRpc + 1 ELSE mwRpc + 2
                /\ UNCHANGED <<mwStatus, mwBody>>
    /\ UNCHANGED <<mwReq, mwCaps, mwHdr>>
    /\ LwRecords
    /\ UNCHANGED mwFlush
    /\ UNCHANGED mwOthers

\* handleClientStream up to its RPC: the method, the body,
\* grpcClient.SayHelloClientStream, which succeeds or fails
MwClientStream(ok) ==
    /\ mwPc = "run"
    /\ MwStage = "handleClientStream"
    /\ MwAnswer
    /\ IF mwReq.method # "POST"
         THEN /\ mwStatus' = 405
              /\ mwBody' = "Method not allowed"
              /\ UNCHANGED mwRpc
         ELSE IF ~DecodesAsNames(mwReq.body)
           THEN /\ mwStatus' = 400
                /\ mwBody' = "decode error"
                /\ UNCHANGED mwRpc
           ELSE /\ mwRpc' = mwRpc + 1
                /\ IF ok
                     THEN UNCHANGED <<mwStatus, mwBody>>
                     ELSE /\ mwStatus' = 500
                          /\ mwBody' = RpcError
    /\ UNCHANGED <<mwReq, mwCaps, mwHdr>>
    /\ LwRecords
    /\ UNCHANGED mwFlush
    /\ UNCHANGED mwOthers

\* handleBidirectional up to its RPC: upgrader.Upgrade needs a writer that
\* can Hijack and answers with an error otherwise; after the upgrade
\* grpcClient.SayHelloBidirectional succeeds or fails, and the error goes
\* to the peer as a frame
MwBidirectional(ok) ==
    /\ mwPc = "run"
    /\ MwStage = "handleBidirectional"
    /\ MwAnswer
    /\ IF "hijack" \in mwCaps
         THEN /\ mwStatus' = 101
              /\ mwRpc' = mwRpc + 1
              /\ mwBody' = IF ok THEN mwBody ELSE RpcError
         ELSE /\ mwStatus' = 500
              /\ mwBody' = "Internal Server Error"
              /\ UNCHANGED mwRpc
    /\ UNCHANGED <<mwReq, mwCaps, mwHdr>>
    /\ IF "hijack" \in mwCaps THEN UNCHANGED mwLw ELSE LwRecords
    /\ UNCHANGED mwFlush
    /\ UNCHANGED mwOthers

\* the response is complete, the next request can come
MwFinish ==
    /\ mwPc = "done"
    /\ mwPc' = "idle"
    /\ UNCHANGED <<mwReq, mwIdx, mwStages, mwCaps, mwHdr, mwStatus, mwBody,
                   mwRpc>>
    /\ UNCHANGED <<mwLw, mwFlush>>
    /\ UNCHANGED mwOthers

MiddlewareStep ==
    \/ \E req \in MwRequests : MwArrive(req)
    \/ \E allow \in BOOLEAN : MwRateLimit(allow)
    \/ MwGzip
    \/ MwCors
    \/ MwLogger
    \/ MwUnary
    \/ MwHealth
    \/ \E ok \in BOOLEAN : MwServerStream(ok)
    \/ \E ok \in BOOLEAN : MwClientStream(ok)
    \/ \E ok \in BOOLEAN : MwBidirectional(ok)
    \/ MwFinish

(***************************************************************************)
(* Properties of the middleware chains.                                    *)
(***************************************************************************)
\* C15: a request that reached handleUnary has the status 503 and the fixed
\* body with error, message and status, whatever its method, origin,
\* encoding and body were, and no RPC call was made for it.
C15_UnaryDisabled ==
    (mwStages # <<>> /\ mwStages[Len(mwStages)] = "handleUnary") =>
        /\ mwStatus = 503
        /\ mwBody = UnaryDisabledBody
        /\ mwHdr.ctype = "application/json"
        /\ mwRpc = 0

\* a POST with a name in its body was answered by handleUnary
C15_Witness ==
    /\ mwPc = "done"
    /\ mwReq.route = "/api/unary"
    /\ mwReq.method = "POST"
    /\ mwReq.body = "{\"name\":\"a\"}"
    /\ mwStages = Chain("/api/unary")
    /\ mwStatus = 503

\* C16: no response carries the wildcard as allowed origin together with
\* the credentials flag.
C16_NoWildcardWithCredentials ==
    ~(mwHdr.acao = <<"*">> /\ mwHdr.acac = "true")

\* C17: the first stage that runs for a request of any registered route is
\* the rate limiter.
C17_RateLimitOnEveryRoute ==
    (mwStages # <<>>) => mwStages[1] = "rateLimit"

\* the handlers that bridge a request to the back end
BridgeStages ==
    {"handleServerStream", "handleClientStream", "handleBidirectional"}

\* the stages that ran for the request
StagesRun == {mwStages[k] : k \in 1..Len(mwStages)}

\* C27: for one request at most one RPC call is made, by one bridge, the
\* last stage of the chain; a call that failed is not made again and the
\* request is answered with its error.
C27_NoRetry ==
    /\ mwRpc <= 1
    /\ (mwRpc = 1) =>
          /\ mwPc \in {"done", "idle"}
          /\ mwStages[Len(mwStages)] \in BridgeStages

\* the call of the client-stream bridge failed: one call was made and the
\* request is answered with the error
C27_Witness ==
    /\ mwPc = "done"
    /\ mwStages = Chain("/api/client-stream")
    /\ mwRpc = 1
    /\ mwStatus = 500
    /\ mwBody = RpcError

\* C29: an OPTIONS request for which enableCORS ran is answered by it, with
\* the status 200 and the allowed methods and headers: enableCORS is the
\* last stage that ran, so neither requestLogger nor a handler ran, and no
\* RPC call was made.
C29_PreflightAnsweredByCors ==
    (mwReq.method = "OPTIONS" /\ "cors" \in StagesRun) =>
        /\ mwPc \in {"done", "idle"}
        /\ mwStages[Len(mwStages)] = "cors"
        /\ mwStatus = 200
        /\ mwHdr.acam = CorsAllowMethods
        /\ mwHdr.acah = CorsAllowHeaders
        /\ mwBody = ""
        /\ mwRpc = 0

\* a preflight request for the client-stream route, answered by enableCORS
C29_Witness ==
    /\ mwPc = "done"
    /\ mwReq.method = "OPTIONS"
    /\ mwReq.route = "/api/client-stream"
    /\ mwStages = <<"rateLimit", "gzip", "cors">>
    /\ mwStatus = 200

\* C30: for a request whose Origin header names an origin that is not
\* allowed no bridge handler runs and no RPC call is made.
C30_DisallowedOriginRejected ==
    (mwReq.origin # <<>> /\ ~LocalOrigin(mwReq.origin)) =>
        /\ StagesRun \cap BridgeStages = {}
        /\ mwRpc = 0

\* the last stage that ran for the request
LastStage == IF mwStages = <<>> THEN "" ELSE mwStages[Len(mwStages)]

StreamingRoutes == {"/api/server-stream", "/api/bidirectional"}

\* C32: enableGzip compresses no request of a streaming route and none
\* whose caller does not accept gzip; a response of such a request has no
\* Content-Encoding and a writer that was not replaced by the gzip writer.
C32_NoGzipForStreams ==
    /\ \A req \in MwRequests :
          GzipCompresses(req) => (req.route \notin StreamingRoutes /\ req.gzip)
    /\ (mwReq.route \in StreamingRoutes \/ ~mwReq.gzip) => mwHdr.enc = ""
    /\ (mwPc = "run" /\ "gzip" \in StagesRun /\ ~mwReq.gzip) =>
          "flush" \in mwCaps

\* a request without Accept-Encoding passed enableGzip uncompressed
C32_Witness ==
    /\ mwReq.route = "/api/unary"
    /\ ~mwReq.gzip
    /\ LastStage = "handleUnary"
    /\ mwHdr.enc = ""

\* the routes that answer with one complete response and have enableGzip in
\* their chain
DiscreteRoutes == {"/api/unary", "/api/client-stream"}

\* C33: the response of a handler of a discrete route to a request that
\* accepts gzip carries Content-Encoding: gzip, the aggregate of the
\* client-stream route included.
C33_DiscreteCompressed ==
    /\ (mwReq.route \in DiscreteRoutes /\ mwReq.gzip
          /\ LastStage = "handleUnary") => mwHdr.enc = "gzip"
    /\ (mwReq.route \in DiscreteRoutes /\ mwReq.gzip
          /\ LastStage = "handleClientStream"
          /\ mwRpc = 1 /\ mwStatus = 0) => mwHdr.enc = "gzip"

\* C34: behind requestLogger the statusCode of the responseLogger is the
\* status the handler wrote, 200 if it wrote none, and every Flush of the
\* handler reached the writer of the server.
C34_LoggerStatusAndFlush ==
    mwLw.on =>
        /\ mwLw.statusCode = IF mwStatus = 0 THEN 200 ELSE mwStatus
        /\ mwFlush.done = mwFlush.calls

\* a server stream behind requestLogger: its frames were flushed one by one
\* and the status logged is 200
C34_Witness ==
    /\ mwPc = "done"
    /\ LastStage = "handleServerStream"
    /\ mwLw.on
    /\ mwLw.statusCode = 200
    /\ mwFlush.calls = ServerStreamCount + 1
    /\ mwFlush.done = ServerStreamCount + 1

\* C38: the writer a bridge is called with can do what the bridge needs,
\* Flush on the server-stream route and Hijack on the bidirectional route,
\* and the bidirectional bridge passes its upgrade.
C38_WriterKeepsCapability ==
    /\ (mwPc = "run" /\ MwStage = "handleServerStream") => "flush" \in mwCaps
    /\ (mwPc = "run" /\ MwStage = "handleBidirectional") => "hijack" \in mwCaps
    /\ (LastStage = "handleBidirectional") => mwStatus = 101

\* C37: the WebSocket has one writer at a time: the handler's send loop is
\* never about to write its send-failure notice while the receive goroutine
\* is about to write a frame of its own, and the receive goroutine is not
\* about to write once the handler has returned and closed the connection.
C37_OneWriterAtATime ==
    /\ ~(bdPc = "sendFailed" /\ bdRecvPc \in {"write", "notify"})
    /\ (bdWs = "closed") => bdRecvPc \notin {"write", "notify"}

\* C39: the done channel never holds more than its one signal; the receive
\* goroutine that has reached its deferred post always has room for it,
\* whatever the handler does; the signal is posted once, at the goroutine's
\* exit, and only the handler's select takes it; the goroutine that reached
\* its post exits, also after the handler returned on the timer.
C39_DonePostNeverBlocks ==
    /\ [](bdDone \in 0..DoneCapacity)
    /\ []((bdRecvPc = "post") => bdDone < DoneCapacity)
    /\ []((bdRecvPc = "exited") => bdDone + (IF bdWait = "clean" THEN 1 ELSE 0) = 1)
    /\ []((bdRecvPc # "exited") => (bdDone = 0 /\ bdWait # "clean"))
    /\ [][(bdDone' > bdDone) => (bdRecvPc = "post" /\ bdRecvPc' = "exited")]_vars
    /\ [][(bdRecvPc = "exited") => bdRecvPc' = "exited"]_vars
    /\ ((bdRecvPc = "post") ~> (bdRecvPc = "exited"))

\* the handler returned on the timer, the goroutine ended afterwards and its
\* signal stays in the channel
C39_Witness ==
    /\ bdPc = "returned"
    /\ bdWait = "timeout"
    /\ bdRecvPc = "exited"
    /\ bdDone = DoneCapacity

(***************************************************************************)
(* Properties of the life cycle.                                           *)
(***************************************************************************)
\* C11: the pooled connection is not closed while a handler is in flight:
\* whenever grpcConn is closed no handler runs, on a served or on a hijacked
\* connection, and no RPC call of a handler has failed for a closed
\* connection.
C11_DrainBeforeClose ==
    (lcConn = "closed") =>
        \A c \in Conns : lcH[c].st = "free" /\ lcH[c].rpc # "failed"

\* C12: the pooled connection is created once and never replaced, Close is
\* called on it at most once, and a process that ended after a termination
\* signal has closed it exactly once.
C12_ClosedOnceOnShutdown ==
    /\ lcDials <= 1
    /\ lcCloses <= 1
    /\ (lcPc = "exited" /\ lcSignal) => (lcCloses = 1 /\ lcConn = "closed")

\* C13: however often closeGRPCConnection has been invoked, Close was called
\* on the pooled connection at most once and no Close returned an error.
C13_CloseIdempotent ==
    /\ lcCloses <= 1
    /\ ~lcCloseErr

\* C14: the listener listens and handlers run only with the connection that
\* initGRPCConnection gave, and after a failed dial the process has ended
\* fatally with no connection, no listener and no handler.
C14_NoServingWithoutConnection ==
    /\ (lcListener = "listening") => (lcDial = "ok" /\ lcConn = "open")
    /\ (lcListener # "none") => lcDial = "ok"
    /\ (InFlight # {}) => (lcDial = "ok" /\ lcConn # "nil")
    /\ (lcDial = "err") =>
          /\ lcPc = "exited"
          /\ lcExit = "fatal"
          /\ lcConn = "nil"
          /\ lcListener = "none"
    /\ (lcPc \notin {"init", "exited"}) => lcDial = "ok"

\* the dial failed and the process ended before it served
C14_Witness ==
    /\ lcDial = "err"
    /\ lcPc = "exited"
    /\ lcExit = "fatal"
    /\ lcListener = "none"

\* the state of the gateway's life cycle: starting until the server listens,
\* serving until the signal, draining while srv.Shutdown waits, stopped from
\* its return or the end of the process on
Phase ==
    CASE lcPc \in {"init", "setup"} -> "starting"
      [] lcPc = "wait" ->
            IF lcListener = "listening" THEN "serving" ELSE "starting"
      [] lcPc = "shutdown" -> "draining"
      [] OTHER -> "stopped"

PhaseRank(p) ==
    CASE p = "starting" -> 0
      [] p = "serving" -> 1
      [] p = "draining" -> 2
      [] OTHER -> 3

\* C28: the state of the life cycle never moves back; after the signal the
\* server does not listen and no handler is started on a new connection;
\* the drain ends, by the return of srv.Shutdown or by the end of its 10 s,
\* and the process ends.
C28_ForwardToStopped ==
    /\ [][PhaseRank(Phase') >= PhaseRank(Phase)]_vars
    /\ [](lcSignal => lcListener # "listening")
    /\ [][lcSignal =>
            \A c \in Conns : (lcH[c].st = "free") => lcH'[c].st = "free"]_vars
    /\ [](Phase = "draining" => lcSignal)
    /\ (lcSignal ~> (lcPc = "exited" /\ Phase = "stopped"))

\* the drain ran out with a handler in flight and the process was ended
C28_Witness ==
    /\ lcSignal
    /\ lcDial = "ok"
    /\ lcListener = "closed"
    /\ lcPc = "exited"
    /\ lcExit = "fatal"

Init == ssInit /\ csInit /\ bdInit /\ rlInit /\ lcInit /\ mwInit

NextServerStream == ServerStreamStep

NextClientStream == ClientStreamStep

NextBidirectional == BidiStep

NextRateLimit == RateLimitStep

NextLifecycle == LifecycleStep

NextMiddleware == MiddlewareStep

NextRateLimitTwo == RateLimitTwoStep

NextShutdownTwice == LifecycleStep \/ CloseGRPCConnectionAgain

SpecServerStream == Init /\ [][NextServerStream]_vars

SpecClientStream == Init /\ [][NextClientStream]_vars

SpecBidirectional == Init /\ [][NextBidirectional]_vars

SpecRateLimit == Init /\ [][NextRateLimit]_vars

SpecLifecycle == Init /\ [][NextLifecycle]_vars

SpecMiddleware == Init /\ [][NextMiddleware]_vars

\* the rate limiter with two handlers and a client behind a proxy
SpecRateLimitTwo == Init /\ [][NextRateLimitTwo]_vars

\* the life cycle with a second invocation of the shutdown's close
SpecShutdownTwice == Init /\ [][NextShutdownTwice]_vars

\* the server stream with a back end that is scheduled
SpecServerStreamFair ==
    SpecServerStream /\ WF_vars(BackendStreamStep)

\* the handler's own goroutine keeps running and the runtime's timers fire;
\* nothing is assumed of the peer, the back end or the receive goroutine
SpecBidirectionalFair ==
    SpecBidirectional /\ WF_vars(BidiHandlerStep)

\* the handler's goroutine and the receive goroutine's deferred post are
\* both scheduled; nothing is assumed of the peer or the back end
SpecBidirectionalPostFair ==
    SpecBidirectional /\ WF_vars(BidiHandlerStep) /\ WF_vars(BidiRecvPost)

\* the life cycle with a main goroutine that is scheduled, and whose timers
\* fire
SpecLifecycleFair ==
    SpecLifecycle /\ WF_vars(MainStep)

====
